---- MODULE Spec2Model ----
(***************************************************************************)
(* Model of the phase-four chat backend: the task tools (mcp_tools.py),    *)
(* the conversation store (conversation_service.py) and the turn           *)
(* orchestrator process_message (agent_service.py).                        *)
(*                                                                         *)
(* Encodings.  An optional value (Python None / SQL NULL / a key missing   *)
(* from a JSON object) is the empty tuple <<>>, a present value v is <<v>>.*)
(* A string is a record [pre, tag, n, post]: pre whitespace characters,    *)
(* then n characters of text named by tag (first and last of them not      *)
(* whitespace), then post whitespace characters.  A UUID is a positive     *)
(* integer; its text form str(uuid) is <<"uuid", k>>.                      *)
(***************************************************************************)
EXTENDS Integers, Sequences, FiniteSets, TLC

VARIABLES tasks, conversations, messages, tool_invocations,
          now, next_id, turn, last, started

vars == <<tasks, conversations, messages, tool_invocations,
          now, next_id, turn, last, started>>

-----------------------------------------------------------------------------
(* Bounds of the model *)

MaxTurns == 2
MaxCalls == 2
MaxTime == 1
MaxTasks == 2

(* Program constants *)

MaxTitleLen == 255
MaxMessageLen == 5000
MaxContentLen == 5000
MinRequestLen == 1
MaxRequestLen == 5000
MinLimit == 1
MaxLimit == 100
DefaultLimit == 10
HistoryLimit == 100

Users == {"u1", "u2"}
Slots == {1, 2}

-----------------------------------------------------------------------------
(* Optional values *)

None == <<>>
Some(v) == <<v>>
IsNone(o) == Len(o) = 0
IsSome(o) == Len(o) = 1
Val(o) == o[1]

(* Strings *)

Str(pre, tag, n, post) == [pre |-> pre, tag |-> tag, n |-> n, post |-> post]
EmptyStr == Str(0, "", 0, 0)

\* len(s)
StrLen(s) == s.pre + s.n + s.post

\* s.strip(): the surrounding whitespace removed; an all-whitespace string
\* becomes the empty string
Strip(s) == IF s.n = 0 THEN EmptyStr ELSE Str(0, s.tag, s.n, 0)

(* UUIDs and their text form *)

UuidStr(k) == <<"uuid", k>>
NotAUuid == <<"text", 0>>

\* UUID(text): None stands for the ValueError of an unparseable text
ParseUUID(s) == IF s[1] = "uuid" THEN Some(s[2]) ELSE None

\* datetime.isoformat()
IsoFormat(ts) == <<"iso", ts>>

Min(a, b) == IF a <= b THEN a ELSE b

-----------------------------------------------------------------------------
(* The task tools.  Each operator is one tool function: it takes the task  *)
(* store and the call's parameters and yields an outcome                   *)
(*   [ok, error, result, tasks]                                            *)
(* where error names the exception raised ("" when none), result is the    *)
(* returned dict and tasks is the store after the call.                    *)

NoResult == [kind |-> "none", id |-> NotAUuid, rows |-> <<>>]

Raise(store, exc) ==
    [ok |-> FALSE, error |-> exc, result |-> NoResult, tasks |-> store]

Return(store, res) ==
    [ok |-> TRUE, error |-> "", result |-> res, tasks |-> store]

\* One serialized task; created_at / updated_at are optional because the
\* tools return different key sets.
TaskRow(t, withCreated, withUpdated) ==
    [id |-> UuidStr(t.id), title |-> t.title, description |-> t.description,
     is_completed |-> t.is_completed,
     created_at |-> IF withCreated THEN Some(IsoFormat(t.created_at)) ELSE None,
     updated_at |-> IF withUpdated THEN Some(IsoFormat(t.updated_at)) ELSE None]

\* select(Task).where(Task.id == task_id, Task.user_id == user_id)
OwnedTaskMut(store, task_id, user_id) ==
    {t \in store : t.id = task_id}

OwnedTask(store, task_id, user_id) ==
    {t \in store : t.id = task_id /\ t.user_id = user_id}

\* create_task(title, description, user_id): title and description are
\* optional values (tool_args.get), id is the fresh uuid4 and ts is utcnow().
create_taskMut(store, title, description, user_id, id, ts) ==
    IF IsNone(title) THEN Raise(store, "TypeError")
    ELSE IF StrLen(Val(title)) = 0 \/ StrLen(Strip(Val(title))) = 0
         THEN Raise(store, "ValidationError")
    ELSE IF StrLen(Val(title)) > MaxTitleLen
         THEN Raise(store, "ValidationError")
    ELSE LET task == [id |-> id, user_id |-> user_id,
                      title |-> Strip(Val(title)),
                      description |-> description,
                      is_completed |-> FALSE,
                      created_at |-> ts, updated_at |-> ts]
         IN Return(store \cup {task},
                   [kind |-> "task", id |-> UuidStr(id),
                    rows |-> <<TaskRow(task, TRUE, FALSE)>>])

create_taskRawMut(store, title, description, user_id, id, ts) ==
    IF IsNone(title) THEN Raise(store, "TypeError")
    ELSE IF StrLen(Val(title)) = 0 \/ StrLen(Strip(Val(title))) = 0
         THEN Raise(store, "ValidationError")
    ELSE IF StrLen(Strip(Val(title))) > MaxTitleLen
         THEN Raise(store, "ValidationError")
    ELSE LET task == [id |-> id, user_id |-> user_id,
                      title |-> Val(title),
                      description |-> description,
                      is_completed |-> FALSE,
                      created_at |-> ts, updated_at |-> ts]
         IN Return(store \cup {task},
                   [kind |-> "task", id |-> UuidStr(id),
                    rows |-> <<TaskRow(task, TRUE, FALSE)>>])

create_task(store, title, description, user_id, id, ts) ==
    IF IsNone(title) THEN Raise(store, "TypeError")
    ELSE IF StrLen(Val(title)) = 0 \/ StrLen(Strip(Val(title))) = 0
         THEN Raise(store, "ValidationError")
    ELSE IF StrLen(Strip(Val(title))) > MaxTitleLen
         THEN Raise(store, "ValidationError")
    ELSE LET task == [id |-> id, user_id |-> user_id,
                      title |-> Strip(Val(title)),
                      description |-> description,
                      is_completed |-> FALSE,
                      created_at |-> ts, updated_at |-> ts]
         IN Return(store \cup {task},
                   [kind |-> "task", id |-> UuidStr(id),
                    rows |-> <<TaskRow(task, TRUE, FALSE)>>])

\* The orders a query "ORDER BY created_at DESC" may return the rows of S
\* in: rows with equal created_at come in any order, rows with a later
\* created_at before rows with an earlier one (S is split at a middle
\* created_at).
DescOrdersMut(S) ==
    {s \in [1..Cardinality(S) -> S] :
        /\ \A i, j \in 1..Cardinality(S) : i # j => s[i] # s[j]
        /\ \A i, j \in 1..Cardinality(S) :
              i < j => s[i].created_at <= s[j].created_at}

RECURSIVE DescOrders(_)
DescOrders(S) ==
    LET times == {x.created_at : x \in S} IN
    IF S = {} THEN {<<>>}
    ELSE IF Cardinality(times) = 1
    THEN {s \in [1..Cardinality(S) -> S] :
             \A i, j \in 1..Cardinality(S) : i # j => s[i] # s[j]}
    ELSE LET mid == CHOOSE t \in times :
                       Cardinality({u \in times : u < t})
                          = Cardinality(times) \div 2
         IN {a \o b : a \in DescOrders({x \in S : x.created_at >= mid}),
                      b \in DescOrders({x \in S : x.created_at < mid})}

\* The rows list_tasks selects, before ordering
ListMatchMut(store, user_id, is_completed) ==
    {t \in store : IsNone(is_completed) \/ t.is_completed = Val(is_completed)}

ListMatch(store, user_id, is_completed) ==
    {t \in store : /\ t.user_id = user_id
                   /\ (IsNone(is_completed) \/ t.is_completed = Val(is_completed))}

\* list_tasks(user_id, is_completed, limit): the set of outcomes the query
\* may produce (one per admissible row order).
list_tasksMut(store, user_id, is_completed, limit) ==
    IF ~(MinLimit <= limit /\ limit < MaxLimit)
    THEN {Raise(store, "ValueError")}
    ELSE {Return(store,
                 [kind |-> "list", id |-> NotAUuid,
                  rows |-> [i \in 1..Min(limit, Len(s)) |->
                               TaskRow(s[i], TRUE, TRUE)]]) :
            s \in DescOrders(ListMatch(store, user_id, is_completed))}

list_tasks(store, user_id, is_completed, limit) ==
    IF ~(MinLimit <= limit /\ limit <= MaxLimit)
    THEN {Raise(store, "ValueError")}
    ELSE {Return(store,
                 [kind |-> "list", id |-> NotAUuid,
                  rows |-> [i \in 1..Min(limit, Len(s)) |->
                               TaskRow(s[i], TRUE, TRUE)]]) :
            s \in DescOrders(ListMatch(store, user_id, is_completed))}

\* update_task(task_id, user_id, title, description, is_completed); ts is
\* utcnow().
update_taskResetMut(store, task_id, user_id, title, description, is_completed, ts) ==
    LET found == OwnedTask(store, task_id, user_id) IN
    IF found = {} THEN Raise(store, "NotFoundError")
    ELSE LET task == CHOOSE t \in found : TRUE IN
         IF IsSome(title) /\ StrLen(Strip(Val(title))) = 0
         THEN Raise(store, "ValidationError")
         ELSE IF IsSome(title) /\ StrLen(Strip(Val(title))) > MaxTitleLen
         THEN Raise(store, "ValidationError")
         ELSE LET new ==
                    [task EXCEPT
                       !.title = IF IsSome(title) THEN Strip(Val(title)) ELSE @,
                       !.description = IF IsSome(description)
                                       THEN description ELSE @,
                       !.is_completed = IF IsSome(is_completed)
                                        THEN Val(is_completed) ELSE FALSE,
                       !.updated_at = ts]
              IN Return((store \ {task}) \cup {new},
                        [kind |-> "task", id |-> UuidStr(new.id),
                         rows |-> <<TaskRow(new, FALSE, TRUE)>>])

update_taskDescMut(store, task_id, user_id, title, description, is_completed, ts) ==
    LET found == OwnedTask(store, task_id, user_id) IN
    IF found = {} THEN Raise(store, "NotFoundError")
    ELSE LET task == CHOOSE t \in found : TRUE IN
         IF IsSome(title) /\ StrLen(Strip(Val(title))) = 0
         THEN Raise(store, "ValidationError")
         ELSE IF IsSome(title) /\ StrLen(Strip(Val(title))) > MaxTitleLen
         THEN Raise(store, "ValidationError")
         ELSE LET new ==
                    [task EXCEPT
                       !.title = IF IsSome(title) THEN Strip(Val(title)) ELSE @,
                       !.description = IF IsSome(description)
                                          /\ StrLen(Val(description)) > 0
                                       THEN description ELSE @,
                       !.is_completed = IF IsSome(is_completed)
                                        THEN Val(is_completed) ELSE @,
                       !.updated_at = ts]
              IN Return((store \ {task}) \cup {new},
                        [kind |-> "task", id |-> UuidStr(new.id),
                         rows |-> <<TaskRow(new, FALSE, TRUE)>>])

update_taskOrderMut(store, task_id, user_id, title, description, is_completed, ts) ==
    IF IsSome(title) /\ StrLen(Strip(Val(title))) = 0
    THEN Raise(store, "ValidationError")
    ELSE IF IsSome(title) /\ StrLen(Strip(Val(title))) > MaxTitleLen
    THEN Raise(store, "ValidationError")
    ELSE LET found == OwnedTask(store, task_id, user_id) IN
         IF found = {} THEN Raise(store, "NotFoundError")
         ELSE LET task == CHOOSE t \in found : TRUE
                  new == [task EXCEPT
                            !.title = IF IsSome(title) THEN Strip(Val(title))
                                      ELSE @,
                            !.description = IF IsSome(description)
                                            THEN description ELSE @,
                            !.is_completed = IF IsSome(is_completed)
                                             THEN Val(is_completed) ELSE @,
                            !.updated_at = ts]
              IN Return((store \ {task}) \cup {new},
                        [kind |-> "task", id |-> UuidStr(new.id),
                         rows |-> <<TaskRow(new, FALSE, TRUE)>>])

update_task(store, task_id, user_id, title, description, is_completed, ts) ==
    LET found == OwnedTask(store, task_id, user_id) IN
    IF found = {} THEN Raise(store, "NotFoundError")
    ELSE LET task == CHOOSE t \in found : TRUE IN
         IF IsSome(title) /\ StrLen(Strip(Val(title))) = 0
         THEN Raise(store, "ValidationError")
         ELSE IF IsSome(title) /\ StrLen(Strip(Val(title))) > MaxTitleLen
         THEN Raise(store, "ValidationError")
         ELSE LET new ==
                    [task EXCEPT
                       !.title = IF IsSome(title) THEN Strip(Val(title)) ELSE @,
                       !.description = IF IsSome(description)
                                       THEN description ELSE @,
                       !.is_completed = IF IsSome(is_completed)
                                        THEN Val(is_completed) ELSE @,
                       !.updated_at = ts]
              IN Return((store \ {task}) \cup {new},
                        [kind |-> "task", id |-> UuidStr(new.id),
                         rows |-> <<TaskRow(new, FALSE, TRUE)>>])

\* delete_task(task_id, user_id)
delete_taskMut(store, task_id, user_id) ==
    LET found == OwnedTask(store, task_id, user_id) IN
    IF found = {} THEN Raise(store, "NotFoundError")
    ELSE Return(store,
                [kind |-> "deleted", id |-> UuidStr(task_id), rows |-> <<>>])

delete_task(store, task_id, user_id) ==
    LET found == OwnedTask(store, task_id, user_id) IN
    IF found = {} THEN Raise(store, "NotFoundError")
    ELSE Return(store \ found,
                [kind |-> "deleted", id |-> UuidStr(task_id), rows |-> <<>>])

-----------------------------------------------------------------------------
(* Tool calls as the model requests them *)

\* A parsed argument object: every key is optional.  user_id is a key the
\* tool schema does not declare but the model may send all the same.
NoArgs == [title |-> None, description |-> None, is_completed |-> None,
           limit |-> None, task_id |-> None, user_id |-> None]

\* function.arguments is JSON text: either the text of an object or text
\* json.loads cannot parse.
JsonText(obj) == [valid |-> TRUE, obj |-> obj]
BadJson == [valid |-> FALSE, obj |-> NoArgs]

\* json.loads(text): None stands for JSONDecodeError
json_loadsMut(text) == Some(text.obj)

json_loads(text) == IF text.valid THEN Some(text.obj) ELSE None

\* json.dumps(value)
json_dumps(value) == [json |-> value]

\* The user_id _execute_tool hands to the task tool: always its own
\* parameter, never a key of tool_args.
ToolUserIdMut(args, user_id) ==
    IF IsSome(args.user_id) THEN Val(args.user_id) ELSE user_id

ToolUserId(args, user_id) == user_id

\* _execute_tool(tool_name, tool_args, user_id): the set of outcomes the
\* dispatch may produce; id is the fresh uuid4 and ts the utcnow() a tool
\* would use.
execute_toolGateMut(store, tool_name, args, user_id, id, ts) ==
    LET uid == ToolUserId(args, user_id) IN
    CASE tool_name = "create_task" ->
           {create_task(store, args.title, args.description, uid, id, ts)}
      [] tool_name = "list_tasks" ->
           list_tasks(store, uid, args.is_completed,
                      IF IsSome(args.limit) THEN Val(args.limit)
                      ELSE DefaultLimit)
      [] tool_name = "update_task" ->
           IF IsNone(args.task_id) THEN {Raise(store, "KeyError")}
           ELSE IF IsNone(ParseUUID(Val(args.task_id)))
                THEN {Raise(store, "ValueError")}
           ELSE {update_task(store, Val(ParseUUID(Val(args.task_id))), uid,
                             args.title, args.description,
                             args.is_completed, ts)}
      [] tool_name = "delete_task" ->
           IF IsNone(args.task_id) THEN {Raise(store, "KeyError")}
           ELSE IF IsNone(ParseUUID(Val(args.task_id)))
                THEN {Raise(store, "ValueError")}
           ELSE {Raise(store, "ConfirmationRequired")}
      [] OTHER -> {Raise(store, "ValueError")}

execute_tool(store, tool_name, args, user_id, id, ts) ==
    LET uid == ToolUserId(args, user_id) IN
    CASE tool_name = "create_task" ->
           {create_task(store, args.title, args.description, uid, id, ts)}
      [] tool_name = "list_tasks" ->
           list_tasks(store, uid, args.is_completed,
                      IF IsSome(args.limit) THEN Val(args.limit)
                      ELSE DefaultLimit)
      [] tool_name = "update_task" ->
           IF IsNone(args.task_id) THEN {Raise(store, "KeyError")}
           ELSE IF IsNone(ParseUUID(Val(args.task_id)))
                THEN {Raise(store, "ValueError")}
           ELSE {update_task(store, Val(ParseUUID(Val(args.task_id))), uid,
                             args.title, args.description,
                             args.is_completed, ts)}
      [] tool_name = "delete_task" ->
           IF IsNone(args.task_id) THEN {Raise(store, "KeyError")}
           ELSE IF IsNone(ParseUUID(Val(args.task_id)))
                THEN {Raise(store, "ValueError")}
           ELSE {delete_task(store, Val(ParseUUID(Val(args.task_id))), uid)}
      [] OTHER -> {Raise(store, "ValueError")}

\* What is remembered of the latest tool call, for the properties
LastCall(tool_name, args, user_id, out) ==
    [tool |-> tool_name, args |-> args, user_id |-> user_id,
     ok |-> out.ok, error |-> out.error, result |-> out.result]

NoCall == [tool |-> "", args |-> NoArgs, user_id |-> "",
           ok |-> FALSE, error |-> "", result |-> NoResult]

-----------------------------------------------------------------------------
(* The conversation store *)

\* Conversation(user_id, title): id is the fresh uuid4, ts is utcnow()
create_conversation(user_id, id, ts) ==
    [id |-> id, user_id |-> user_id, title |-> None,
     created_at |-> ts, updated_at |-> ts]

\* create_message's checks before the insert: "" when they pass, else the
\* exception.  content is an optional string (the model's text may be null).
CreateMessageErrorMut(role, content) ==
    IF role \notin {"user", "agent"} THEN "ValueError"
    ELSE IF IsNone(content) THEN "TypeError"
    ELSE ""

CreateMessageError(role, content) ==
    IF role \notin {"user", "agent"} THEN "ValueError"
    ELSE IF IsNone(content) THEN "TypeError"
    ELSE IF StrLen(Val(content)) > MaxContentLen THEN "ValueError"
    ELSE ""

\* Message(conversation_id, role, content)
NewMessage(id, conversation_id, role, content, ts) ==
    [id |-> id, conversation_id |-> conversation_id, role |-> role,
     content |-> content, created_at |-> ts]

\* The orders "ORDER BY created_at ASC" may return the rows of S in: rows
\* with the same created_at in any order, rows with an earlier created_at
\* before rows with a later one (S is split at a middle created_at)
RECURSIVE AscOrders(_)
AscOrders(S) ==
    LET times == {x.created_at : x \in S} IN
    IF S = {} THEN {<<>>}
    ELSE IF Cardinality(times) = 1
    THEN {s \in [1..Cardinality(S) -> S] :
             \A i, j \in 1..Cardinality(S) : i # j => s[i] # s[j]}
    ELSE LET mid == CHOOSE t \in times :
                       Cardinality({u \in times : u < t})
                          = Cardinality(times) \div 2
         IN {a \o b : a \in AscOrders({x \in S : x.created_at < mid}),
                      b \in AscOrders({x \in S : x.created_at >= mid})}

\* get_conversation_messages(conversation_id): the lists the query may
\* return (limit 100, offset 0)
get_conversation_messages(msgs, conversation_id) ==
    {SubSeq(s, 1, Min(HistoryLimit, Len(s))) :
        s \in AscOrders({m \in msgs : m.conversation_id = conversation_id})}

-----------------------------------------------------------------------------
(* The turn orchestrator, process_message *)

SYSTEM_PROMPT == Str(0, "SYSTEM_PROMPT", 1, 0)

\* _build_openai_messages(conversation_messages, new_user_message)
BuildMessagesMut(history, new_user_message) ==
    <<[role |-> "system", content |-> SYSTEM_PROMPT]>>
    \o [i \in 1..Len(history) |->
          [role |-> "user", content |-> history[i].content]]
    \o <<[role |-> "user", content |-> new_user_message]>>

BuildMessages(history, new_user_message) ==
    <<[role |-> "system", content |-> SYSTEM_PROMPT]>>
    \o [i \in 1..Len(history) |->
          [role |-> history[i].role, content |-> history[i].content]]
    \o <<[role |-> "user", content |-> new_user_message]>>

\* The entry process_message appends to tool_invocations for one executed
\* call: the try branch for a returned result, the except branch for any
\* exception.
InvocationMut(tool_name, args, out) ==
    [tool_name |-> tool_name, input_params |-> json_dumps(args),
     output_result |-> Some(json_dumps(out.result)),
     success |-> TRUE, error_message |-> None]

Invocation(tool_name, args, out) ==
    IF out.ok
    THEN [tool_name |-> tool_name, input_params |-> json_dumps(args),
          output_result |-> Some(json_dumps(out.result)),
          success |-> TRUE, error_message |-> None]
    ELSE [tool_name |-> tool_name, input_params |-> json_dumps(args),
          output_result |-> None,
          success |-> FALSE, error_message |-> Some(out.error)]

\* A turn's local state.  pc is the position in process_message.
IdleTurn ==
    [pc |-> "idle", user_id |-> "", user_message |-> EmptyStr,
     given |-> None, conversation_id |-> None,
     history |-> <<>>, transcript |-> <<>>, transcript2 |-> <<>>,
     calls |-> <<>>, invs |-> <<>>, answer |-> None, model_calls |-> 0,
     user_msg |-> None, agent_msg |-> None, inv_rows |-> {},
     touched |-> FALSE, error |-> ""]

\* The length check that opens process_message
MessageTooLongMut(msg) == StrLen(msg) >= MaxMessageLen

MessageTooLong(msg) == StrLen(msg) > MaxMessageLen

\* Where process_message goes once the transcript is built: to the first
\* model call
FirstStepMut == "persist_user"

FirstStep == "model1"

\* Where the loop over the tool calls goes after one call, done of total
\* calls now being recorded: a call that raised is recorded like one that
\* returned, and the loop goes on
NextAfterToolSkipMut(out, done, total) ==
    IF done = total THEN "persist_user" ELSE "tools"

NextAfterToolMut(out, done, total) ==
    IF ~out.ok THEN "aborted"
    ELSE IF done = total THEN "model2" ELSE "tools"

NextAfterTool(out, done, total) ==
    IF done = total THEN "model2" ELSE "tools"

\* f"Error: {error_message}"
ErrorText(error_message) == <<"Error: ", error_message>>

\* The messages of the second model call: the first transcript, the
\* assistant entry with the requested tool calls (a response with tool calls
\* has null text), and one tool entry per call, the i-th built from the
\* i-th recorded invocation
SecondTranscriptMut(transcript, calls, invs) ==
    transcript
    \o <<[role |-> "assistant", content |-> None, tool_calls |-> calls]>>
    \o [i \in 1..Len(calls) |->
          [role |-> "tool", tool_call_id |-> calls[i].id,
           content |-> IF invs[i].success
                       THEN Val(invs[i].output_result)
                       ELSE None]]

SecondTranscript(transcript, calls, invs) ==
    transcript
    \o <<[role |-> "assistant", content |-> None, tool_calls |-> calls]>>
    \o [i \in 1..Len(calls) |->
          [role |-> "tool", tool_call_id |-> calls[i].id,
           content |-> IF invs[i].success
                       THEN Val(invs[i].output_result)
                       ELSE ErrorText(Val(invs[i].error_message))]]

\* The turn ends with an exception
AbortMut(t, exc) == [turn[t] EXCEPT !.pc = "idle", !.error = exc]

Abort(t, exc) == [turn[t] EXCEPT !.pc = "aborted", !.error = exc]

\* utcnow(): the last reading plus the time that has passed since, one of
\* Ticks (0 when the clock has not moved between two readings)
Clock(Ticks) == {now + d : d \in Ticks}

(* Inputs *)

\* User messages at the length limit and one character over it
UserMessages ==
    {Str(0, "hello", MaxMessageLen, 0), Str(0, "hello", MaxMessageLen + 1, 0)}

\* The text of a model response: null, a reply as long as a Message may
\* hold, or one character longer
ModelTexts ==
    {None, Some(Str(0, "reply", MaxContentLen, 0)),
     Some(Str(0, "reply", MaxContentLen + 1, 0))}

Call(name, arguments) == [name |-> name, arguments |-> arguments]

\* Calls of the four tools, each with a user_id key naming u1, and a call
\* whose argument text is not JSON
CreateCall ==
    Call("create_task",
         JsonText([NoArgs EXCEPT !.title = Some(Str(1, "a", 1, 1)),
                                 !.user_id = Some("u1")]))
ListCall ==
    Call("list_tasks", JsonText([NoArgs EXCEPT !.user_id = Some("u1")]))
UpdateCall ==
    Call("update_task",
         JsonText([NoArgs EXCEPT !.task_id = Some(UuidStr(1)),
                                 !.is_completed = Some(TRUE),
                                 !.user_id = Some("u1")]))
DeleteCall ==
    Call("delete_task",
         JsonText([NoArgs EXCEPT !.task_id = Some(UuidStr(1)),
                                 !.user_id = Some("u1")]))
BadJsonCall == Call("create_task", BadJson)

\* Calls that raise in the tool: an all-whitespace title, a limit of 0, a
\* task_id that is no UUID, a tool that does not exist
BlankTitleCall ==
    Call("create_task",
         JsonText([NoArgs EXCEPT !.title = Some(Str(2, "", 0, 0))]))
BadLimitCall ==
    Call("list_tasks", JsonText([NoArgs EXCEPT !.limit = Some(0)]))
BadUuidCall ==
    Call("update_task", JsonText([NoArgs EXCEPT !.task_id = Some(NotAUuid)]))
UnknownToolCall == Call("drop_tasks", JsonText(NoArgs))

ToolCallPool == {CreateCall, ListCall, UpdateCall, DeleteCall, BadJsonCall}

\* The tool_calls of a model response: one to MaxCalls calls of Pool, the
\* i-th with call id i
ToolCallLists(Pool) ==
    UNION {{[i \in 1..n |-> [id |-> i, name |-> f[i].name,
                             arguments |-> f[i].arguments]] :
              f \in [1..n -> Pool]} : n \in 1..MaxCalls}

-----------------------------------------------------------------------------
(* State *)

Init ==
    /\ tasks = {}
    /\ conversations = {}
    /\ messages = {}
    /\ tool_invocations = {}
    /\ now = 0
    /\ next_id = [task |-> 1, conv |-> 1, msg |-> 1, inv |-> 1]
    /\ turn = [t \in Slots |-> IdleTurn]
    /\ last = NoCall
    /\ started = 0

\* A conversation id a caller may supply: one that was issued (its
\* conversation may since be gone), or 0, which never was
SuppliedConversationIds == 0..(next_id.conv - 1)

\* process_message, from its entry to the built transcript: the length
\* check, then create_conversation or get_conversation_messages, then
\* _build_openai_messages.
Begin(t, Callers, Texts, Ticks) ==
    /\ turn[t].pc \in {"idle", "done", "aborted"}
    /\ started < MaxTurns
    /\ started' = started + 1
    /\ \E u \in Callers, msg \in Texts :
         LET fresh == [IdleTurn EXCEPT !.user_id = u, !.user_message = msg] IN
         \/ \* the message is too long
            /\ MessageTooLong(msg)
            /\ \E given \in {None} \cup {Some(c) : c \in SuppliedConversationIds} :
                 turn' = [turn EXCEPT ![t] =
                            [fresh EXCEPT !.given = given, !.pc = "aborted",
                                          !.error = "ValueError"]]
            /\ UNCHANGED <<conversations, now, next_id>>
         \/ \* no conversation id: a conversation is created and committed
            /\ ~MessageTooLong(msg)
            /\ \E ts \in Clock(Ticks) :
                 /\ conversations' = conversations \cup
                       {create_conversation(u, next_id.conv, ts)}
                 /\ now' = ts
            /\ next_id' = [next_id EXCEPT !.conv = @ + 1]
            /\ turn' = [turn EXCEPT ![t] =
                          [fresh EXCEPT !.conversation_id = Some(next_id.conv),
                                        !.transcript = BuildMessages(<<>>, msg),
                                        !.pc = FirstStep]]
         \/ \* no conversation id, and the commit of the new row fails
            /\ ~MessageTooLong(msg)
            /\ turn' = [turn EXCEPT ![t] =
                          [fresh EXCEPT !.pc = "aborted",
                                        !.error = "PersistenceError"]]
            /\ UNCHANGED <<conversations, now, next_id>>
         \/ \* a conversation id: its messages are loaded
            /\ ~MessageTooLong(msg)
            /\ \E c \in SuppliedConversationIds :
               \E h \in get_conversation_messages(messages, c) :
                 turn' = [turn EXCEPT ![t] =
                            [fresh EXCEPT !.given = Some(c),
                                          !.conversation_id = Some(c),
                                          !.history = h,
                                          !.transcript = BuildMessages(h, msg),
                                          !.pc = FirstStep]]
            /\ UNCHANGED <<conversations, now, next_id>>
    /\ UNCHANGED <<tasks, messages, tool_invocations, last>>

\* The first client.chat.completions.create call and the branch on
\* assistant_message.tool_calls
Model1(t, Replies, CallLists) ==
    /\ turn[t].pc = "model1"
    /\ \/ \* the call raises
          turn' = [turn EXCEPT ![t] =
                     [Abort(t, "UpstreamModelError") EXCEPT !.model_calls = 1]]
       \/ \* no tool calls: the text is the answer
          \E text \in Replies :
            turn' = [turn EXCEPT ![t].model_calls = 1,
                                 ![t].answer = text,
                                 ![t].pc = "persist_user"]
       \/ \* tool calls
          \E cs \in CallLists :
            turn' = [turn EXCEPT ![t].model_calls = 1,
                                 ![t].calls = cs,
                                 ![t].pc = "tools"]
    /\ UNCHANGED <<tasks, conversations, messages, tool_invocations,
                   now, next_id, last, started>>

\* The tool call the loop over assistant_message.tool_calls is at when
\* invs holds the entries appended so far
NextCallMut(calls, invs) == calls[Len(calls) - Len(invs)]

NextCall(calls, invs) == calls[Len(invs) + 1]

\* One iteration of the loop over assistant_message.tool_calls
ExecTool(t, Ticks) ==
    /\ turn[t].pc = "tools"
    /\ LET call == NextCall(turn[t].calls, turn[t].invs)
           parsed == json_loads(call.arguments)
       IN
       \/ \* json.loads raises, outside the try
          /\ IsNone(parsed)
          /\ turn' = [turn EXCEPT ![t] = Abort(t, "JSONDecodeError")]
          /\ UNCHANGED <<tasks, now, next_id, last>>
       \/ /\ IsSome(parsed)
          /\ \E ts \in Clock(Ticks) :
             \E out \in execute_tool(tasks, call.name, Val(parsed),
                                     turn[t].user_id, next_id.task, ts) :
               /\ tasks' = out.tasks
               /\ now' = IF out.tasks = tasks THEN now ELSE ts
               /\ next_id' = IF out.ok /\ call.name = "create_task"
                             THEN [next_id EXCEPT !.task = @ + 1]
                             ELSE next_id
               /\ last' = LastCall(call.name, Val(parsed),
                                   ToolUserId(Val(parsed), turn[t].user_id), out)
               /\ LET invs == Append(turn[t].invs,
                                     Invocation(call.name, Val(parsed), out))
                  IN turn' = [turn EXCEPT
                                ![t].invs = invs,
                                ![t].pc = NextAfterTool(out, Len(invs),
                                                        Len(turn[t].calls))]
    /\ UNCHANGED <<conversations, messages, tool_invocations, started>>

\* The second client.chat.completions.create call
Model2AuditMut(t, Replies) ==
    /\ turn[t].pc = "model2"
    /\ LET sent == SecondTranscript(turn[t].transcript, turn[t].calls,
                                    turn[t].invs)
       IN
       \/ /\ turn' = [turn EXCEPT ![t] =
                        [Abort(t, "UpstreamModelError") EXCEPT
                           !.model_calls = 2, !.transcript2 = sent]]
          /\ tool_invocations' = tool_invocations \cup
                {[id |-> next_id.inv + i - 1, message_id |-> 0,
                  tool_name |-> turn[t].invs[i].tool_name,
                  input_params |-> turn[t].invs[i].input_params,
                  output_result |-> turn[t].invs[i].output_result,
                  success |-> turn[t].invs[i].success,
                  error_message |-> turn[t].invs[i].error_message,
                  created_at |-> now] : i \in 1..Len(turn[t].invs)}
       \/ /\ \E text \in Replies :
               turn' = [turn EXCEPT ![t].model_calls = 2,
                                    ![t].transcript2 = sent,
                                    ![t].answer = text,
                                    ![t].pc = "persist_user"]
          /\ UNCHANGED tool_invocations
    /\ UNCHANGED <<tasks, conversations, messages,
                   now, next_id, last, started>>

Model2(t, Replies) ==
    /\ turn[t].pc = "model2"
    /\ LET sent == SecondTranscript(turn[t].transcript, turn[t].calls,
                                    turn[t].invs)
       IN
       \/ turn' = [turn EXCEPT ![t] =
                     [Abort(t, "UpstreamModelError") EXCEPT
                        !.model_calls = 2, !.transcript2 = sent]]
       \/ \E text \in Replies :
            turn' = [turn EXCEPT ![t].model_calls = 2,
                                 ![t].transcript2 = sent,
                                 ![t].answer = text,
                                 ![t].pc = "persist_user"]
    /\ UNCHANGED <<tasks, conversations, messages, tool_invocations,
                   now, next_id, last, started>>

\* create_message(role="user", content=user_message) and its commit
PersistUserLockMut(t, Ticks) ==
    /\ turn[t].pc = "persist_user"
    /\ \A o \in Slots \ {t} :
         ~(/\ turn[o].pc \in {"persist_agent", "persist_tools", "touch"}
           /\ turn[o].conversation_id = turn[t].conversation_id)
    /\ LET err == CreateMessageError("user", Some(turn[t].user_message)) IN
       \/ /\ err # ""
          /\ turn' = [turn EXCEPT ![t] = Abort(t, err)]
          /\ UNCHANGED <<messages, now, next_id>>
       \/ /\ err = ""
          /\ turn' = [turn EXCEPT ![t] = Abort(t, "PersistenceError")]
          /\ UNCHANGED <<messages, now, next_id>>
       \/ /\ err = ""
          /\ \E ts \in Clock(Ticks) :
               /\ messages' = messages \cup
                     {NewMessage(next_id.msg, Val(turn[t].conversation_id),
                                 "user", turn[t].user_message, ts)}
               /\ now' = ts
          /\ next_id' = [next_id EXCEPT !.msg = @ + 1]
          /\ turn' = [turn EXCEPT ![t].user_msg = Some(next_id.msg),
                                  ![t].pc = "persist_agent"]
    /\ UNCHANGED <<tasks, conversations, tool_invocations, last, started>>

PersistUser(t, Ticks) ==
    /\ turn[t].pc = "persist_user"
    /\ LET err == CreateMessageError("user", Some(turn[t].user_message)) IN
       \/ /\ err # ""
          /\ turn' = [turn EXCEPT ![t] = Abort(t, err)]
          /\ UNCHANGED <<messages, now, next_id>>
       \/ /\ err = ""
          /\ turn' = [turn EXCEPT ![t] = Abort(t, "PersistenceError")]
          /\ UNCHANGED <<messages, now, next_id>>
       \/ /\ err = ""
          /\ \E ts \in Clock(Ticks) :
               /\ messages' = messages \cup
                     {NewMessage(next_id.msg, Val(turn[t].conversation_id),
                                 "user", turn[t].user_message, ts)}
               /\ now' = ts
          /\ next_id' = [next_id EXCEPT !.msg = @ + 1]
          /\ turn' = [turn EXCEPT ![t].user_msg = Some(next_id.msg),
                                  ![t].pc = "persist_agent"]
    /\ UNCHANGED <<tasks, conversations, tool_invocations, last, started>>

\* create_message(role="agent", content=agent_response_text) and its commit
PersistAgent(t, Ticks) ==
    /\ turn[t].pc = "persist_agent"
    /\ LET err == CreateMessageError("agent", turn[t].answer) IN
       \/ /\ err # ""
          /\ turn' = [turn EXCEPT ![t] = Abort(t, err)]
          /\ UNCHANGED <<messages, now, next_id>>
       \/ /\ err = ""
          /\ turn' = [turn EXCEPT ![t] = Abort(t, "PersistenceError")]
          /\ UNCHANGED <<messages, now, next_id>>
       \/ /\ err = ""
          /\ \E ts \in Clock(Ticks) :
               /\ messages' = messages \cup
                     {NewMessage(next_id.msg, Val(turn[t].conversation_id),
                                 "agent", Val(turn[t].answer), ts)}
               /\ now' = ts
          /\ next_id' = [next_id EXCEPT !.msg = @ + 1]
          /\ turn' = [turn EXCEPT ![t].agent_msg = Some(next_id.msg),
                                  ![t].pc = IF Len(turn[t].invs) > 0
                                            THEN "persist_tools" ELSE "touch"]
    /\ UNCHANGED <<tasks, conversations, tool_invocations, last, started>>

\* The ToolInvocation rows of the turn: session.add for each entry of
\* tool_invocations, then one commit
ToolInvocationRowsMut(invs, message_id, first_id, ts) ==
    {[id |-> first_id + i - 1, message_id |-> message_id - 1,
      tool_name |-> invs[i].tool_name,
      input_params |-> invs[i].input_params,
      output_result |-> invs[i].output_result,
      success |-> invs[i].success,
      error_message |-> invs[i].error_message,
      created_at |-> ts] : i \in 1..Len(invs)}

ToolInvocationRowsOkMut(invs, message_id, first_id, ts) ==
    {[id |-> first_id + i - 1, message_id |-> message_id,
      tool_name |-> invs[i].tool_name,
      input_params |-> invs[i].input_params,
      output_result |-> invs[i].output_result,
      success |-> invs[i].success,
      error_message |-> invs[i].error_message,
      created_at |-> ts] : i \in {k \in 1..Len(invs) : invs[k].success}}

ToolInvocationRows(invs, message_id, first_id, ts) ==
    {[id |-> first_id + i - 1, message_id |-> message_id,
      tool_name |-> invs[i].tool_name,
      input_params |-> invs[i].input_params,
      output_result |-> invs[i].output_result,
      success |-> invs[i].success,
      error_message |-> invs[i].error_message,
      created_at |-> ts] : i \in 1..Len(invs)}

PersistTools(t) ==
    /\ turn[t].pc = "persist_tools"
    /\ \/ /\ turn' = [turn EXCEPT ![t] = Abort(t, "PersistenceError")]
          /\ UNCHANGED <<tool_invocations, next_id>>
       \/ LET rows == ToolInvocationRows(turn[t].invs, Val(turn[t].agent_msg),
                                         next_id.inv, now)
          IN /\ tool_invocations' = tool_invocations \cup rows
             /\ next_id' = [next_id EXCEPT !.inv = @ + Len(turn[t].invs)]
             /\ turn' = [turn EXCEPT ![t].inv_rows = {r.id : r \in rows},
                                     ![t].pc = "touch"]
    /\ UNCHANGED <<tasks, conversations, messages, now, last, started>>

\* update_conversation_timestamp(conversation_id), then the return
TouchStaleMut(t, Ticks) ==
    /\ turn[t].pc = "touch"
    /\ LET found == {c \in conversations :
                        c.id = Val(turn[t].conversation_id)} IN
       \/ /\ found = {}
          /\ turn' = [turn EXCEPT ![t] = Abort(t, "ValueError")]
          /\ UNCHANGED <<conversations, now>>
       \/ /\ found # {}
          /\ turn' = [turn EXCEPT ![t] = Abort(t, "PersistenceError")]
          /\ UNCHANGED <<conversations, now>>
       \/ /\ found # {}
          /\ \E ts \in Clock(Ticks) :
               /\ conversations' =
                     {IF c \in found THEN [c EXCEPT !.created_at = ts] ELSE c :
                        c \in conversations}
               /\ now' = ts
          /\ turn' = [turn EXCEPT ![t].touched = TRUE, ![t].pc = "done"]
    /\ UNCHANGED <<tasks, messages, tool_invocations, next_id, last, started>>

TouchAllMut(t, Ticks) ==
    /\ turn[t].pc = "touch"
    /\ LET found == {c \in conversations :
                        c.id = Val(turn[t].conversation_id)} IN
       \/ /\ found = {}
          /\ turn' = [turn EXCEPT ![t] = Abort(t, "ValueError")]
          /\ UNCHANGED <<conversations, now>>
       \/ /\ found # {}
          /\ turn' = [turn EXCEPT ![t] = Abort(t, "PersistenceError")]
          /\ UNCHANGED <<conversations, now>>
       \/ /\ found # {}
          /\ \E ts \in Clock(Ticks) :
               /\ conversations' =
                     {IF c.user_id \in {f.user_id : f \in found}
                      THEN [c EXCEPT !.updated_at = ts] ELSE c :
                        c \in conversations}
               /\ now' = ts
          /\ turn' = [turn EXCEPT ![t].touched = TRUE, ![t].pc = "done"]
    /\ UNCHANGED <<tasks, messages, tool_invocations, next_id, last, started>>

TouchMut(t, Ticks) ==
    /\ turn[t].pc = "touch"
    /\ LET found == {c \in conversations :
                        c.id = Val(turn[t].conversation_id)} IN
       \/ /\ found = {}
          /\ turn' = [turn EXCEPT ![t].pc = "done"]
          /\ UNCHANGED <<conversations, now>>
       \/ /\ found # {}
          /\ turn' = [turn EXCEPT ![t] = Abort(t, "PersistenceError")]
          /\ UNCHANGED <<conversations, now>>
       \/ /\ found # {}
          /\ \E ts \in Clock(Ticks) :
               /\ conversations' =
                     {IF c \in found THEN [c EXCEPT !.updated_at = ts] ELSE c :
                        c \in conversations}
               /\ now' = ts
          /\ turn' = [turn EXCEPT ![t].touched = TRUE, ![t].pc = "done"]
    /\ UNCHANGED <<tasks, messages, tool_invocations, next_id, last, started>>

Touch(t, Ticks) ==
    /\ turn[t].pc = "touch"
    /\ LET found == {c \in conversations :
                        c.id = Val(turn[t].conversation_id)} IN
       \/ /\ found = {}
          /\ turn' = [turn EXCEPT ![t] = Abort(t, "ValueError")]
          /\ UNCHANGED <<conversations, now>>
       \/ /\ found # {}
          /\ turn' = [turn EXCEPT ![t] = Abort(t, "PersistenceError")]
          /\ UNCHANGED <<conversations, now>>
       \/ /\ found # {}
          /\ \E ts \in Clock(Ticks) :
               /\ conversations' =
                     {IF c \in found THEN [c EXCEPT !.updated_at = ts] ELSE c :
                        c \in conversations}
               /\ now' = ts
          /\ turn' = [turn EXCEPT ![t].touched = TRUE, ![t].pc = "done"]
    /\ UNCHANGED <<tasks, messages, tool_invocations, next_id, last, started>>

Step(t, Callers, Texts, Replies, CallLists, Ticks) ==
    \/ Begin(t, Callers, Texts, Ticks)
    \/ Model1(t, Replies, CallLists)
    \/ ExecTool(t, Ticks)
    \/ Model2(t, Replies)
    \/ PersistUser(t, Ticks)
    \/ PersistAgent(t, Ticks)
    \/ PersistTools(t)
    \/ Touch(t, Ticks)

\* Turns one after another: the caller starts a turn when the one before
\* has returned or raised.  Time passes between any two clock readings.
Next ==
    Step(1, Users, UserMessages, ModelTexts, ToolCallLists(ToolCallPool), {1})

Spec == Init /\ [][Next]_vars

\* Turns of one user whose model requests calls that raise in the tools
FailingCallPool ==
    {CreateCall, UpdateCall, BlankTitleCall, BadLimitCall, BadUuidCall,
     UnknownToolCall, BadJsonCall}

NextFail ==
    Step(1, {"u1"}, UserMessages, ModelTexts, ToolCallLists(FailingCallPool),
         {1})

SpecFail == Init /\ [][NextFail]_vars

\* The store after n turns without tool calls completed one after another
\* on a new conversation of u1: the rows Begin, PersistUser, PersistAgent
\* and Touch leave, with the ids and clock readings they take
CompletedTurns(n) ==
    [conversations |->
        IF n = 0 THEN {}
        ELSE {[create_conversation("u1", 1, 1) EXCEPT !.updated_at = 3 * n + 1]},
     messages |->
        UNION {{NewMessage(2 * k - 1, 1, "user",
                           Str(0, "hello", MaxMessageLen, 0), 3 * k - 1),
                NewMessage(2 * k, 1, "agent",
                           Str(0, "reply", MaxContentLen, 0), 3 * k)} :
                 k \in 1..n},
     now |-> IF n = 0 THEN 0 ELSE 3 * n + 1,
     next_id |-> [task |-> 1, conv |-> IF n = 0 THEN 1 ELSE 2,
                  msg |-> 2 * n + 1, inv |-> 1]]

\* Numbers of completed turns: none, one, as many as fill the limit of
\* get_conversation_messages, and one more
LongTurnCounts == {0, 1, HistoryLimit \div 2, HistoryLimit \div 2 + 1}

InitLong ==
    \E n \in LongTurnCounts :
      /\ tasks = {}
      /\ conversations = CompletedTurns(n).conversations
      /\ messages = CompletedTurns(n).messages
      /\ tool_invocations = {}
      /\ now = CompletedTurns(n).now
      /\ next_id = CompletedTurns(n).next_id
      /\ turn = [t \in Slots |-> IdleTurn]
      /\ last = NoCall
      /\ started = 0

\* Turns of u1 on conversations that may already be long
NextLong ==
    Step(1, {"u1"}, UserMessages, {Some(Str(0, "reply", MaxContentLen, 0))},
         ToolCallLists({ListCall}), {1})

SpecLong == InitLong /\ [][NextLong]_vars

\* The task store after u1 has created n tasks one after another
CreatedTasks(n) ==
    {[id |-> k, user_id |-> "u1", title |-> Str(0, "a", 1, 0),
      description |-> None, is_completed |-> FALSE,
      created_at |-> k, updated_at |-> k] : k \in 1..n}

\* Numbers of tasks: none, as many as the default limit of a list, one more
TaskCounts == {0, DefaultLimit, DefaultLimit + 1}

InitMany ==
    \E n \in TaskCounts :
      /\ tasks = CreatedTasks(n)
      /\ conversations = {}
      /\ messages = {}
      /\ tool_invocations = {}
      /\ now = n
      /\ next_id = [task |-> n + 1, conv |-> 1, msg |-> 1, inv |-> 1]
      /\ turn = [t \in Slots |-> IdleTurn]
      /\ last = NoCall
      /\ started = 0

\* list_tasks calls: without limit, and with limits at and around the ends
\* of the valid range
LimitCall(limit) ==
    Call("list_tasks", JsonText([NoArgs EXCEPT !.limit = Some(limit)]))

ListCallPool ==
    {ListCall, LimitCall(MinLimit - 1), LimitCall(MinLimit),
     LimitCall(MaxLimit), LimitCall(MaxLimit + 1)}

\* Turns of u1, whose model lists the tasks, on stores that may hold many
NextMany ==
    Step(1, {"u1"}, UserMessages, {Some(Str(0, "reply", MaxContentLen, 0))},
         ToolCallLists(ListCallPool), {1})

SpecMany == InitMany /\ [][NextMany]_vars

-----------------------------------------------------------------------------
(* The chat endpoint, send_chat_message *)

\* ChatRequest.message: min_length=1, max_length=5000.  A request that fails
\* the schema is answered before the endpoint's body runs.
RequestInvalid(msg) ==
    StrLen(msg) < MinRequestLen \/ StrLen(msg) > MaxRequestLen

\* not chat_request.message.strip()
IsBlank(msg) == StrLen(Strip(msg)) = 0

\* What the endpoint raises for an exception of its body: ValidationError
\* is re-raised, a ValueError (json.JSONDecodeError is one) becomes a
\* ValidationError, anything else an HTTPException with status 500
ChatError(exc) ==
    IF exc \in {"ValidationError", "RequestValidationError"} THEN exc
    ELSE IF exc \in {"ValueError", "JSONDecodeError"} THEN "ValidationError"
    ELSE "HTTPException"

\* The endpoint's answer for the turn T: "" while the turn is under way
ChatResponse(T) ==
    IF T.pc = "done" THEN "ChatResponse"
    ELSE IF T.pc = "aborted" THEN ChatError(T.error)
    ELSE ""

\* The ToolInvocationSummary list the endpoint builds from the returned
\* tool_invocations
tool_invocation_summariesMut(invs) ==
    [i \in 1..Len(invs) |->
       [tool_name |-> invs[i].tool_name,
        success |-> invs[i].success,
        result |-> IF invs[i].success THEN invs[i].output_result ELSE None,
        error |-> IF ~invs[i].success THEN invs[i].error_message
                  ELSE Some("")]]

tool_invocation_summaries(invs) ==
    [i \in 1..Len(invs) |->
       [tool_name |-> invs[i].tool_name,
        success |-> invs[i].success,
        result |-> IF invs[i].success THEN invs[i].output_result ELSE None,
        error |-> IF ~invs[i].success THEN invs[i].error_message ELSE None]]

\* The ChatResponse of a turn that returned
ResponseBody(T) ==
    [conversation_id |-> Val(T.conversation_id),
     message_id |-> Val(T.agent_msg),
     agent_response |-> Val(T.answer),
     tool_invocations |-> tool_invocation_summaries(T.invs)]

\* Messages of requests: empty, all whitespace, at the length limit, one
\* character over it
ChatMessages ==
    {EmptyStr, Str(2, "", 0, 0), Str(0, "hello", MaxRequestLen, 0),
     Str(0, "hello", MaxRequestLen + 1, 0)}

\* A request arrives: the schema check, the whitespace check, then
\* process_message with the authenticated user's id and the request's
\* conversation_id, whoever owns that conversation
send_chat_message(t, Callers, Texts, Ticks) ==
    \/ /\ turn[t].pc \in {"idle", "done", "aborted"}
       /\ started < MaxTurns
       /\ started' = started + 1
       /\ \E u \in Callers, msg \in Texts :
            /\ RequestInvalid(msg) \/ IsBlank(msg)
            /\ turn' = [turn EXCEPT ![t] =
                  [IdleTurn EXCEPT
                     !.user_id = u, !.user_message = msg, !.pc = "aborted",
                     !.error = IF RequestInvalid(msg)
                               THEN "RequestValidationError"
                               ELSE "ValidationError"]]
       /\ UNCHANGED <<tasks, conversations, messages, tool_invocations,
                      now, next_id, last>>
    \/ Begin(t, Callers, {m \in Texts : ~RequestInvalid(m) /\ ~IsBlank(m)},
             Ticks)

\* Requests of both users, one after another
NextChat ==
    \/ send_chat_message(1, Users, ChatMessages, {1})
    \/ Model1(1, ModelTexts, ToolCallLists(ToolCallPool))
    \/ ExecTool(1, {1})
    \/ Model2(1, ModelTexts)
    \/ PersistUser(1, {1})
    \/ PersistAgent(1, {1})
    \/ PersistTools(1)
    \/ Touch(1, {1})

SpecChat == Init /\ [][NextChat]_vars

-----------------------------------------------------------------------------
(* The task tools called directly, by any caller with any user_id *)

\* Titles: a padded valid one, an all-whitespace one, a padded one whose
\* text has the maximal length, and one that is one character too long
Titles ==
    {Str(1, "a", 1, 1), Str(2, "", 0, 0), Str(1, "a", MaxTitleLen, 1),
     Str(0, "a", MaxTitleLen + 1, 0), EmptyStr}

\* is_completed / limit pairs of list_tasks calls
ListInputs ==
    {<<None, MinLimit - 1>>, <<None, MinLimit>>, <<None, MaxLimit>>,
     <<None, MaxLimit + 1>>, <<Some(TRUE), MaxLimit>>, <<Some(FALSE), MaxLimit>>,
     <<None, DefaultLimit>>}

\* title / description / is_completed triples of update_task calls: every
\* subset of the three fields set to valid values, and invalid titles
\* alone and together with the other fields
UpdateInputs ==
    {<<t, d, f>> : t \in {None, Some(Str(1, "a", MaxTitleLen, 1))},
                   d \in {None, Some(EmptyStr)},
                   f \in {None, Some(TRUE)}}
    \cup {<<None, None, Some(FALSE)>>,
          <<Some(Str(2, "", 0, 0)), Some(EmptyStr), Some(TRUE)>>,
          <<Some(Str(0, "a", MaxTitleLen + 1, 0)), None, None>>}

\* Task ids a caller may name: each is unissued, live or deleted at some time
TaskIds == 1..MaxTasks

\* Clock readings of a clock that may stand still between two readings
CoarseTicks == IF now < MaxTime THEN {0, 1} ELSE {0}

\* Calls are made one at a time: last holds the outcome of a call until its
\* caller has taken it.
CallCreate(u, title, description) ==
    /\ last = NoCall
    /\ next_id.task <= MaxTasks
    /\ \E ts \in Clock(CoarseTicks) :
         LET out == create_task(tasks, Some(title), description, u,
                                next_id.task, ts)
         IN /\ tasks' = out.tasks
            /\ now' = IF out.ok THEN ts ELSE now
            /\ next_id' = IF out.ok THEN [next_id EXCEPT !.task = @ + 1]
                          ELSE next_id
            /\ last' = LastCall("create_task",
                                [NoArgs EXCEPT !.title = Some(title),
                                               !.description = description],
                                u, out)
    /\ UNCHANGED <<conversations, messages, tool_invocations, turn, started>>

CallList(u, is_completed, limit) ==
    /\ last = NoCall
    /\ \E out \in list_tasks(tasks, u, is_completed, limit) :
         /\ tasks' = out.tasks
         /\ last' = LastCall("list_tasks",
                             [NoArgs EXCEPT !.is_completed = is_completed,
                                            !.limit = Some(limit)],
                             u, out)
    /\ UNCHANGED <<conversations, messages, tool_invocations, turn, started,
                   now, next_id>>

CallUpdate(u, task_id, title, description, is_completed) ==
    /\ last = NoCall
    /\ \E ts \in Clock(CoarseTicks) :
         LET out == update_task(tasks, task_id, u, title, description,
                                is_completed, ts)
         IN /\ tasks' = out.tasks
            /\ now' = IF out.ok THEN ts ELSE now
            /\ last' = LastCall("update_task",
                                [NoArgs EXCEPT !.task_id = Some(UuidStr(task_id)),
                                               !.title = title,
                                               !.description = description,
                                               !.is_completed = is_completed],
                                u, out)
    /\ UNCHANGED <<conversations, messages, tool_invocations, turn, started,
                   next_id>>

CallDelete(u, task_id) ==
    /\ last = NoCall
    /\ LET out == delete_task(tasks, task_id, u)
       IN /\ tasks' = out.tasks
          /\ last' = LastCall("delete_task",
                              [NoArgs EXCEPT !.task_id = Some(UuidStr(task_id))],
                              u, out)
    /\ UNCHANGED <<conversations, messages, tool_invocations, turn, started,
                   now, next_id>>

\* The caller takes the outcome of its call
CallReturn ==
    /\ last # NoCall
    /\ last' = NoCall
    /\ UNCHANGED <<tasks, conversations, messages, tool_invocations,
                   now, next_id, turn, started>>

NextTools ==
    \/ \E u \in Users, title \in Titles, d \in {None, Some(EmptyStr)} :
         CallCreate(u, title, d)
    \/ \E u \in Users, in \in ListInputs : CallList(u, in[1], in[2])
    \/ \E u \in Users, id \in TaskIds, in \in UpdateInputs :
         CallUpdate(u, id, in[1], in[2], in[3])
    \/ \E u \in Users, id \in TaskIds : CallDelete(u, id)
    \/ CallReturn

SpecTools == Init /\ [][NextTools]_vars

-----------------------------------------------------------------------------
(* Properties *)

PersistPcs == {"persist_user", "persist_agent", "persist_tools", "touch", "done"}

\* The ToolInvocation row the turn in slot t wrote for its i-th call
RowOf(t, i) ==
    {r \in tool_invocations :
        /\ r.id \in turn[t].inv_rows
        /\ r.message_id = Val(turn[t].agent_msg)
        /\ r.tool_name = turn[t].invs[i].tool_name
        /\ r.input_params = turn[t].invs[i].input_params
        /\ r.success = turn[t].invs[i].success
        /\ r.output_result = turn[t].invs[i].output_result
        /\ r.error_message = turn[t].invs[i].error_message}

\* Calls that raise in the tool whatever the task store holds
AlwaysFailingCalls ==
    {BlankTitleCall, BadLimitCall, BadUuidCall, UnknownToolCall}

\* C1: a tool call that raises does not abort the turn.  The only abort
\* inside the tool loop is unparseable argument text; once the loop is left
\* every requested call has been executed and recorded, in order; a call
\* that raised is recorded with success false, no output and an error
\* message (a missing task, a blank title, a limit of 0, a task_id that is
\* no UUID and an unknown tool all are); and a turn that completes after
\* tool calls has made the second model call, has persisted its user and
\* agent messages and holds one ToolInvocation row per call with these
\* values.
C1_ToolFailureDoesNotAbort ==
    LET T == turn[1] IN
    /\ (T.pc = "aborted" /\ T.model_calls = 1 /\ Len(T.calls) > 0
          /\ T.error # "UpstreamModelError")
         => (/\ Len(T.invs) < Len(T.calls)
             /\ ~T.calls[Len(T.invs) + 1].arguments.valid
             /\ T.error = "JSONDecodeError")
    /\ (T.pc \in PersistPcs \cup {"model2"} /\ Len(T.calls) > 0)
         => Len(T.invs) = Len(T.calls)
    /\ \A i \in 1..Len(T.invs) :
         /\ T.invs[i].tool_name = T.calls[i].name
         /\ ~T.invs[i].success
              => IsNone(T.invs[i].output_result) /\ IsSome(T.invs[i].error_message)
         /\ Call(T.calls[i].name, T.calls[i].arguments) \in AlwaysFailingCalls
              => ~T.invs[i].success
         /\ (T.calls[i].name \in {"update_task", "delete_task"}
               /\ T.calls[i].arguments.valid
               /\ T.invs[i].success)
              => T.invs[i].error_message = None
    /\ (Len(T.invs) > 0 /\ ~last.ok /\ T.pc \in {"tools", "model2"})
         => ~T.invs[Len(T.invs)].success
    /\ (T.pc = "done" /\ Len(T.calls) > 0)
         => (/\ T.model_calls = 2
             /\ \E m \in messages : m.id = Val(T.user_msg) /\ m.role = "user"
             /\ \E m \in messages : m.id = Val(T.agent_msg) /\ m.role = "agent"
             /\ \A i \in 1..Len(T.calls) : RowOf(1, i) # {})

\* C1 witness: a completed turn whose first call raised NotFound and whose
\* second call then succeeded, both recorded
C1_Witness ==
    LET T == turn[1] IN
    /\ T.pc = "done"
    /\ Len(T.invs) = 2
    /\ ~T.invs[1].success
    /\ T.invs[1].error_message = Some("NotFoundError")
    /\ T.invs[2].success
    /\ \E r \in RowOf(1, 1) : ~r.success /\ IsNone(r.output_result)

\* The task_id a recorded call named, when it is the text of a UUID
NamedTask(call) ==
    IF IsSome(call.args.task_id) /\ IsSome(ParseUUID(Val(call.args.task_id)))
    THEN ParseUUID(Val(call.args.task_id)) ELSE None

\* C2: update_task and delete_task on a task id the caller does not own
\* (no such task, or a task of another user) fail with NotFound and leave
\* the task store unchanged; a task changes or disappears only in a call
\* made with its owner's user_id.
C2_OnlyOwnerMutates ==
    [][ /\ \A x \in tasks : x \notin tasks' => last'.user_id = x.user_id
        /\ (/\ last' # last
            /\ last'.tool \in {"update_task", "delete_task"}
            /\ IsSome(NamedTask(last'))
            /\ ~\E x \in tasks : /\ x.id = Val(NamedTask(last'))
                                 /\ x.user_id = last'.user_id)
           => (/\ ~last'.ok
               /\ last'.error = "NotFoundError"
               /\ tasks' = tasks) ]_vars

\* C2 witness: a call on a task that exists under another owner has failed
\* with NotFound
C2_Witness ==
    /\ last.tool \in {"update_task", "delete_task"}
    /\ last.error = "NotFoundError"
    /\ IsSome(NamedTask(last))
    /\ \E x \in tasks : x.id = Val(NamedTask(last)) /\ x.user_id # last.user_id

\* The calls non-interference is probed with: each tool, with arguments
\* that name every task id
ProbeCalls ==
    {CreateCall, ListCall, BadLimitCall}
    \cup {Call("list_tasks",
               JsonText([NoArgs EXCEPT !.is_completed = Some(f),
                                       !.limit = Some(MinLimit)])) :
            f \in {TRUE, FALSE}}
    \cup {Call("update_task",
               JsonText([NoArgs EXCEPT !.task_id = Some(UuidStr(k)),
                                       !.is_completed = Some(TRUE)])) :
            k \in TaskIds}
    \cup {Call("delete_task",
               JsonText([NoArgs EXCEPT !.task_id = Some(UuidStr(k))])) :
            k \in TaskIds}

\* What the caller sees of an outcome
Seen(out) == [ok |-> out.ok, error |-> out.error, result |-> out.result]

\* What user u can see of the outcomes of call c on a store
SeenBy(store, c, u) ==
    {Seen(out) : out \in execute_tool(store, c.name, Val(json_loads(c.arguments)),
                                      u, next_id.task, now)}

\* C3: for every user u and every tool call made with user_id u, the result
\* or error is the same on any two task stores that differ only in tasks of
\* other users (here: the store, and the store with any of the others'
\* tasks removed), and the call changes no task of another user.
C3_NonInterference ==
    last = NoCall =>
    \A u \in Users :
      LET mine == {x \in tasks : x.user_id = u}
          others == tasks \ mine
      IN \A c \in ProbeCalls :
           /\ \A gone \in SUBSET others :
                SeenBy(tasks \ gone, c, u) = SeenBy(tasks, c, u)
           /\ \A out \in execute_tool(tasks, c.name, Val(json_loads(c.arguments)),
                                      u, next_id.task, now) :
                {x \in out.tasks : x.user_id # u} = others

\* C3 witness: both users own a task, and a list_tasks call of one of them
\* has returned without the other's task
C3_Witness ==
    /\ \E x, y \in tasks : x.user_id = "u1" /\ y.user_id = "u2"
    /\ last.tool = "list_tasks"
    /\ last.ok
    /\ last.args.limit = Some(MaxLimit)
    /\ last.args.is_completed = None
    /\ Len(last.result.rows) = Cardinality({x \in tasks : x.user_id = last.user_id})
    /\ Len(last.result.rows) < Cardinality(tasks)

\* A step in which the turn executed one tool call
ToolRan == Len(turn'[1].invs) > Len(turn[1].invs)

\* C4: every tool executed during a turn runs with the user_id of the
\* caller of process_message, whatever the argument object holds (all calls
\* of the pool but the unparseable one carry a user_id key naming u1): the
\* user_id handed to the tool is the turn's, every task the call adds,
\* removes or replaces belongs to the turn's user, every task a list
\* returns is a task of the turn's user, and tasks change in no other step.
C4_ToolsRunAsCaller ==
    [][ /\ tasks' # tasks => ToolRan
        /\ ToolRan =>
             /\ last'.user_id = turn[1].user_id
             /\ \A x \in (tasks' \ tasks) \cup (tasks \ tasks') :
                  x.user_id = turn[1].user_id
             /\ \A i \in 1..Len(last'.result.rows) :
                  \E x \in tasks' : /\ UuidStr(x.id) = last'.result.rows[i].id
                                    /\ x.user_id = turn[1].user_id ]_vars

\* C4 witness: a turn of u2 has run create_task with an argument object
\* whose user_id key names u1, and the task created is u2's
C4_Witness ==
    /\ turn[1].user_id = "u2"
    /\ turn[1].pc \in {"tools", "model2"}
    /\ Len(turn[1].invs) > 0
    /\ last.tool = "create_task"
    /\ last.ok
    /\ last.args.user_id = Some("u1")
    /\ \E x \in tasks : UuidStr(x.id) = last.result.id /\ x.user_id = "u2"

\* The conversation rows whose updated_at a step changed
Touched ==
    {c \in conversations :
        \E d \in conversations' : d.id = c.id /\ d.updated_at # c.updated_at}

\* C5: the writes of a turn are committed in the order user Message, agent
\* Message (content the final answer), one ToolInvocation row per tool call
\* each with message_id the agent Message's id, Conversation.updated_at;
\* each write is made only when all the writes before it are in the store
\* and none of the writes after it has been made, and a completed turn has
\* made them all.
C5_PersistenceOrder ==
    [][ LET T == turn[1]
            U == turn'[1]
            newMsgs == messages' \ messages
            newRows == tool_invocations' \ tool_invocations
        IN
        /\ newMsgs # {} =>
             \E m \in newMsgs :
               /\ newMsgs = {m}
               /\ m.conversation_id = Val(T.conversation_id)
               /\ newRows = {} /\ Touched = {}
               /\ T.inv_rows = {} /\ ~T.touched
               /\ \/ /\ m.role = "user"
                     /\ m.content = T.user_message
                     /\ IsNone(T.user_msg) /\ IsNone(T.agent_msg)
                     /\ U.user_msg = Some(m.id)
                  \/ /\ m.role = "agent"
                     /\ Some(m.content) = T.answer
                     /\ IsSome(T.user_msg) /\ IsNone(T.agent_msg)
                     /\ \E um \in messages : /\ um.id = Val(T.user_msg)
                                             /\ um.role = "user"
                                             /\ um.id < m.id
                     /\ U.agent_msg = Some(m.id)
        /\ newRows # {} =>
             /\ newMsgs = {} /\ Touched = {}
             /\ T.inv_rows = {} /\ ~T.touched
             /\ IsSome(T.user_msg) /\ IsSome(T.agent_msg)
             /\ \E am \in messages : am.id = Val(T.agent_msg) /\ am.role = "agent"
             /\ \A r \in newRows : r.message_id = Val(T.agent_msg)
             /\ Cardinality(newRows) = Len(T.invs)
             /\ U.inv_rows = {r.id : r \in newRows}
        /\ Touched # {} =>
             /\ newMsgs = {} /\ newRows = {}
             /\ \A c \in Touched : c.id = Val(T.conversation_id)
             /\ IsSome(T.user_msg) /\ IsSome(T.agent_msg)
             /\ \E um, am \in messages :
                  um.id = Val(T.user_msg) /\ am.id = Val(T.agent_msg)
             /\ Cardinality({r \in tool_invocations :
                                r.message_id = Val(T.agent_msg)}) = Len(T.invs)
             /\ U.pc = "done"
        /\ (U.pc = "done" /\ T.pc # "done") =>
             /\ Touched # {}
             /\ \A i \in 1..Len(T.calls) :
                  \E r \in tool_invocations :
                    /\ r.id \in T.inv_rows
                    /\ r.message_id = Val(T.agent_msg)
                    /\ r.tool_name = T.calls[i].name ]_vars

\* C5 witness: a completed turn of two tool calls with its two messages,
\* its two rows linked to the agent message, and its conversation touched
C5_Witness ==
    LET T == turn[1] IN
    /\ T.pc = "done"
    /\ Len(T.calls) = 2
    /\ T.touched
    /\ \E um, am \in messages :
         /\ um.id = Val(T.user_msg) /\ um.role = "user"
         /\ am.id = Val(T.agent_msg) /\ am.role = "agent"
         /\ um.id < am.id
    /\ Cardinality({r \in tool_invocations :
                       r.message_id = Val(T.agent_msg)}) = 2
    /\ \E c \in conversations :
         c.id = Val(T.conversation_id) /\ c.updated_at > c.created_at

\* C6: a turn is all-or-nothing for its conversation records: a turn that
\* has aborted has persisted no Message and no ToolInvocation, and between
\* turns every persisted user Message is accompanied by the agent Message
\* of its turn.
C6_AllOrNothing ==
    LET T == turn[1] IN
    /\ T.pc = "aborted" =>
         /\ IsNone(T.user_msg) /\ IsNone(T.agent_msg) /\ T.inv_rows = {}
    /\ T.pc \in {"idle", "done", "aborted"} =>
         \A m \in messages :
           m.role = "user" =>
             \E a \in messages : /\ a.role = "agent"
                                 /\ a.conversation_id = m.conversation_id
                                 /\ a.id = m.id + 1

\* C7: a turn that was given no conversation id and aborted before the
\* persistence step leaves no new Conversation row.
C7_NoConversationOnAbort ==
    LET T == turn[1] IN
    (T.pc = "aborted" /\ IsNone(T.given) /\ IsNone(T.user_msg)
       /\ T.error \in {"UpstreamModelError", "JSONDecodeError"})
      => \/ IsNone(T.conversation_id)
         \/ ~\E c \in conversations : c.id = Val(T.conversation_id)

\* C8: no Message, ToolInvocation or updated_at write of a turn is made
\* before the final answer has been obtained: any step that inserts a
\* Message or a ToolInvocation or changes a Conversation's updated_at is
\* taken after the first model call returned without tool calls, or after
\* the second model call returned when tools were requested.
C8_NoWriteBeforeAnswer ==
    [][ (messages' # messages \/ tool_invocations' # tool_invocations
           \/ Touched # {})
        => /\ turn[1].pc \in PersistPcs
           /\ turn[1].model_calls = IF turn[1].calls = <<>> THEN 1 ELSE 2
           /\ turn[1].calls # <<>> => Len(turn[1].invs) = Len(turn[1].calls)
      ]_vars

\* C8 witness: tools were requested, the second model call has returned,
\* and the first write of the turn has just been made
C8_Witness ==
    /\ turn[1].pc = "persist_agent"
    /\ turn[1].calls # <<>>
    /\ turn[1].model_calls = 2
    /\ \E m \in messages : m.id = Val(turn[1].user_msg)

\* C9: a user message longer than 5000 characters is rejected with an
\* invalid-argument error before a conversation is created, the model is
\* called, a tool is executed or a record is written; a message of exactly
\* 5000 characters is not rejected by the length check.
C9_LengthCheck ==
    [][ started' # started =>
          LET U == turn'[1] IN
          /\ StrLen(U.user_message) > MaxMessageLen =>
               /\ U.pc = "aborted" /\ U.error = "ValueError"
               /\ U.model_calls = 0 /\ U.invs = <<>>
               /\ IsNone(U.conversation_id)
               /\ UNCHANGED <<tasks, conversations, messages,
                              tool_invocations, next_id>>
          /\ StrLen(U.user_message) <= MaxMessageLen =>
               ~(U.pc = "aborted" /\ U.error = "ValueError") ]_vars

\* C9 witness: a turn with a message of exactly 5000 characters has reached
\* the first model call, after a turn with a message of 5001 characters
\* was rejected without leaving a conversation
C9_Witness ==
    /\ started = 2
    /\ turn[1].pc = "model1"
    /\ StrLen(turn[1].user_message) = MaxMessageLen
    /\ Cardinality(conversations) = 1

\* C10: the transcript of the first model call is one system message, then
\* one entry per loaded historical message in created_at order with the
\* same content and the role re-tagged (agent to assistant, user to user),
\* then the new user message; no entry has the role agent.
C10_Transcript ==
    LET T == turn[1]
        n == Len(T.history)
    IN T.transcript # <<>> =>
         /\ Len(T.transcript) = n + 2
         /\ T.transcript[1] = [role |-> "system", content |-> SYSTEM_PROMPT]
         /\ T.transcript[n + 2] = [role |-> "user", content |-> T.user_message]
         /\ \A i \in 1..n :
              /\ T.transcript[i + 1].content = T.history[i].content
              /\ T.transcript[i + 1].role =
                    IF T.history[i].role = "agent" THEN "assistant" ELSE "user"
         /\ \A i, j \in 1..n :
              i < j => T.history[i].created_at <= T.history[j].created_at
         /\ \A i \in 1..(n + 2) : T.transcript[i].role # "agent"

\* The messages of the turn's conversation that were stored before the turn
StoredBefore(T) ==
    {m \in messages :
        /\ m.conversation_id = Val(T.conversation_id)
        /\ Some(m.id) \notin {T.user_msg, T.agent_msg}}

\* C11: the transcript built for a turn on a conversation holds every
\* message stored in the conversation before the turn, each exactly once,
\* in created_at ascending order, followed by the new user message,
\* however many turns have completed on the conversation.
C11_FullHistoryReplay ==
    LET T == turn[1]
        n == Len(T.history)
    IN T.transcript # <<>> =>
         /\ n = Cardinality(StoredBefore(T))
         /\ {T.history[i] : i \in 1..n} = StoredBefore(T)
         /\ \A i \in 1..n :
              /\ i < n => T.history[i].created_at <= T.history[i + 1].created_at
              /\ T.transcript[i + 1].content = T.history[i].content
         /\ Len(T.transcript) = n + 2
         /\ T.transcript[n + 2].content = T.user_message

\* C12: in every turn the model is invoked once when its first response has
\* no tool calls (its text is the answer and no tool runs) and twice when it
\* has (the second response's text is the answer); never a third time; and
\* tools run only between the first and the second invocation.
C12_TwoPhase ==
    [][ LET T == turn[1]
            U == turn'[1]
        IN
        /\ started' = started =>
             /\ U.model_calls \in {T.model_calls, T.model_calls + 1}
             /\ U.model_calls <= 2
             /\ U.model_calls = 2 => U.calls # <<>>
             /\ U.calls # T.calls => T.model_calls = 0 /\ U.model_calls = 1
             /\ U.answer # T.answer =>
                  /\ U.model_calls = T.model_calls + 1
                  /\ U.model_calls = IF U.calls = <<>> THEN 1 ELSE 2
                  /\ U.pc = "persist_user"
             /\ (ToolRan \/ tasks' # tasks) =>
                  /\ T.model_calls = 1 /\ U.model_calls = 1
                  /\ T.calls # <<>>
        /\ U.pc \in PersistPcs =>
             /\ U.model_calls = IF U.calls = <<>> THEN 1 ELSE 2
             /\ Len(U.invs) = Len(U.calls) ]_vars

\* C12 witness: a turn with tool calls has completed after two model calls,
\* following a turn without tool calls that completed after one
C12_Witness ==
    /\ started = 2
    /\ turn[1].pc = "done"
    /\ turn[1].model_calls = 2
    /\ Len(turn[1].invs) = 1
    /\ Cardinality({m \in messages : m.role = "agent"}) = 2
    /\ Cardinality({r.message_id : r \in tool_invocations}) = 1

\* C13: the transcript of the second model call is the first transcript,
\* then one assistant entry carrying all requested tool calls, then one tool
\* entry per requested call in the order of the calls, the i-th with the id
\* of the i-th call and the serialized output of that call when it
\* succeeded or the error string of that call when it failed; there are as
\* many recorded invocations as requested calls when the call is made.
C13_SecondTranscript ==
    LET T == turn[1]
        n == Len(T.transcript)
        k == Len(T.calls)
    IN T.model_calls = 2 =>
         /\ Len(T.invs) = k
         /\ k > 0
         /\ Len(T.transcript2) = n + 1 + k
         /\ SubSeq(T.transcript2, 1, n) = T.transcript
         /\ T.transcript2[n + 1].role = "assistant"
         /\ T.transcript2[n + 1].tool_calls = T.calls
         /\ \A i \in 1..k :
              LET e == T.transcript2[n + 1 + i] IN
              /\ e.role = "tool"
              /\ e.tool_call_id = T.calls[i].id
              /\ T.invs[i].tool_name = T.calls[i].name
              /\ T.invs[i].success => e.content = Val(T.invs[i].output_result)
              /\ ~T.invs[i].success =>
                   e.content = <<"Error: ", Val(T.invs[i].error_message)>>

\* C13 witness: the second call was made after a call that failed with
\* NotFound and a call that succeeded
C13_Witness ==
    LET T == turn[1] IN
    /\ T.model_calls = 2
    /\ Len(T.calls) = 2
    /\ ~T.invs[1].success /\ T.invs[2].success
    /\ T.transcript2[Len(T.transcript) + 2].content
          = <<"Error: ", "NotFoundError">>

\* C14: a failed model call, or a tool call whose argument text is not
\* valid JSON, aborts the turn: no second model call follows a failed first
\* one, the call with the bad text and the calls after it are not executed,
\* no Message or ToolInvocation of the turn is persisted, nothing more
\* happens in the turn, and the task store keeps what the calls executed
\* before have done to it.
C14_AbortsTurn ==
    [][ LET T == turn[1]
            U == turn'[1]
        IN
        /\ \A i \in 1..Len(U.invs) : U.calls[i].arguments.valid
        /\ (U.pc \in PersistPcs \cup {"model2"}) =>
             \A i \in 1..Len(U.calls) : U.calls[i].arguments.valid
        /\ (T.pc = "tools" /\ ~T.calls[Len(T.invs) + 1].arguments.valid) =>
             U.pc = "aborted" /\ U.error = "JSONDecodeError"
        /\ (T.pc # "aborted" /\ U.pc = "aborted"
              /\ U.error \in {"UpstreamModelError", "JSONDecodeError"}) =>
             /\ T.pc \in {"model1", "tools", "model2"}
             /\ U.invs = T.invs
             /\ T.pc \in {"model1", "tools"} => U.model_calls = 1
             /\ T.pc = "tools" => Len(U.invs) < Len(U.calls)
             /\ IsNone(U.user_msg) /\ IsNone(U.agent_msg) /\ U.inv_rows = {}
             /\ UNCHANGED <<tasks, messages, tool_invocations>>
        /\ T.pc = "aborted" => started' = started + 1 ]_vars

\* C14 witness: the first call created a task, the second call's argument
\* text was not JSON, the turn has aborted and the task is in the store
C14_Witness ==
    LET T == turn[1] IN
    /\ T.pc = "aborted"
    /\ T.error = "JSONDecodeError"
    /\ Len(T.calls) = 2 /\ Len(T.invs) = 1
    /\ T.invs[1].success /\ T.invs[1].tool_name = "create_task"
    /\ \E x \in tasks : UuidStr(x.id) = last.result.id
    /\ T.model_calls = 1
    /\ ~\E m \in messages : m.conversation_id = Val(T.conversation_id)

\* The tools whose success changes the task store
MutatingTools == {"create_task", "update_task", "delete_task"}

\* C15: whenever the chat endpoint rejects a turn with ValidationError, no
\* Conversation, Message or ToolInvocation has been written and no tool has
\* changed the task store in that turn.
C15_ValidationBeforePersistence ==
    LET T == turn[1] IN
    ChatResponse(T) = "ValidationError" =>
      /\ IsNone(T.given) => IsNone(T.conversation_id)
      /\ IsNone(T.user_msg) /\ IsNone(T.agent_msg) /\ T.inv_rows = {}
      /\ ~T.touched
      /\ \A i \in 1..Len(T.invs) :
           ~(T.invs[i].success /\ T.invs[i].tool_name \in MutatingTools)

\* C16: a turn submitted by a user with the id of a conversation another
\* user owns is rejected at the request boundary: the owner's messages are
\* not loaded into the transcript, no Message is appended to the
\* conversation and its updated_at is not changed.
C16_ForeignConversationRejected ==
    LET T == turn[1] IN
    (/\ T.pc # "idle"
     /\ IsSome(T.given)
     /\ \E c \in conversations : c.id = Val(T.given) /\ c.user_id # T.user_id)
      => /\ T.pc = "aborted"
         /\ T.history = <<>> /\ T.transcript = <<>>
         /\ IsNone(T.user_msg) /\ IsNone(T.agent_msg)
         /\ ~T.touched

\* C17: create_task fails with ValidationError and leaves the task store
\* unchanged exactly when the title with surrounding whitespace removed is
\* empty or longer than 255 characters; otherwise it adds exactly one task,
\* owned by the given user_id, with is_completed false and the trimmed
\* title, and returns that task's id, title, description, is_completed and
\* created_at.
C17_CreateTask ==
    [][ (last = NoCall /\ last'.tool = "create_task") =>
          LET title == Val(last'.args.title)
              trimmed == [pre |-> 0, tag |-> IF title.n = 0 THEN "" ELSE title.tag,
                          n |-> title.n, post |-> 0]
              bad == trimmed.n = 0 \/ trimmed.n > MaxTitleLen
          IN
          /\ bad => /\ ~last'.ok
                    /\ last'.error = "ValidationError"
                    /\ tasks' = tasks
          /\ ~bad =>
               /\ last'.ok
               /\ \E x \in tasks' :
                    /\ tasks' = tasks \cup {x}
                    /\ \A y \in tasks : y.id # x.id
                    /\ x.user_id = last'.user_id
                    /\ x.is_completed = FALSE
                    /\ x.title = trimmed
                    /\ x.description = last'.args.description
                    /\ last'.result.id = UuidStr(x.id)
                    /\ Len(last'.result.rows) = 1
                    /\ LET row == last'.result.rows[1] IN
                       /\ row.id = UuidStr(x.id)
                       /\ row.title = trimmed
                       /\ row.description = x.description
                       /\ row.is_completed = FALSE
                       /\ row.created_at = Some(IsoFormat(x.created_at)) ]_vars

\* C17 witness: a title padded with whitespace whose trimmed text has
\* exactly 255 characters was accepted and stored trimmed
C17_Witness ==
    /\ last.tool = "create_task"
    /\ last.ok
    /\ StrLen(Val(last.args.title)) > MaxTitleLen
    /\ \E x \in tasks : /\ UuidStr(x.id) = last.result.id
                        /\ StrLen(x.title) = MaxTitleLen

\* The limits a list_tasks call that follows a create_task is probed with
ProbeLimits == {MinLimit, DefaultLimit, MaxLimit}

\* The task the call remembered in last has created
Created == CHOOSE x \in tasks : UuidStr(x.id) = last.result.id

\* The new task is certain to be among the first limit rows of its owner's
\* list: the owner has no more than limit tasks, or every other task of the
\* owner has an earlier created_at
SureListed(limit) ==
    LET mine == {x \in tasks : x.user_id = last.user_id} IN
    \/ Cardinality(mine) <= limit
    \/ \A y \in mine \ {Created} : y.created_at < Created.created_at

\* C18 as stated: after a create_task with a valid title, list_tasks with
\* no filter by the same user returns a task whose title is the title given
\* and whose is_completed is false.
C18_CreateThenList ==
    (last.tool = "create_task" /\ last.ok) =>
      \A out \in list_tasks(tasks, last.user_id, None, DefaultLimit) :
        /\ out.ok
        /\ \E i \in 1..Len(out.result.rows) :
             /\ out.result.rows[i].title = Val(last.args.title)
             /\ out.result.rows[i].is_completed = FALSE

\* C18 amended: after a create_task with a valid title, list_tasks with no
\* filter by the same user returns the new task with the given title
\* without its surrounding whitespace and with is_completed false, whenever
\* the user has no more tasks than the limit or no other task of the user
\* has a created_at as late as the new task's.
C18_CreateThenListTrimmed ==
    (last.tool = "create_task" /\ last.ok) =>
      \A limit \in ProbeLimits :
        SureListed(limit) =>
          \A out \in list_tasks(tasks, last.user_id, None, limit) :
            /\ out.ok
            /\ \E i \in 1..Len(out.result.rows) :
                 LET row == out.result.rows[i]
                     given == Val(last.args.title)
                 IN /\ row.id = last.result.id
                    /\ row.title.tag = given.tag
                    /\ row.title.n = given.n
                    /\ row.title.pre = 0 /\ row.title.post = 0
                    /\ row.is_completed = FALSE

\* C18 witness: a task was just created from a padded title while its owner
\* already had a task, and the owner's list of limit 1 is certain to hold it
C18_Witness ==
    /\ last.tool = "create_task"
    /\ last.ok
    /\ Val(last.args.title).pre > 0
    /\ Cardinality({x \in tasks : x.user_id = last.user_id}) = 2
    /\ SureListed(MinLimit)

\* C20: for a valid limit, list_tasks returns only tasks owned by user_id,
\* of the given completion flag when is_completed is given and of both
\* flags when it is omitted, each once, serialized with id, title,
\* description, is_completed, created_at and updated_at, ordered by
\* created_at descending, Min(limit, number of matching tasks) of them, no
\* omitted matching task being more recent than a returned one; the task
\* store is unchanged.
C20_ListTasks ==
    [][ (last = NoCall /\ last'.tool = "list_tasks" /\ last'.ok) =>
          LET rows == last'.result.rows
              limit == Val(last'.args.limit)
              flag == last'.args.is_completed
              match == {x \in tasks :
                          /\ x.user_id = last'.user_id
                          /\ flag # <<>> => x.is_completed = flag[1]}
              shown == {x \in match :
                          \E i \in 1..Len(rows) : rows[i].id = <<"uuid", x.id>>}
          IN
          /\ tasks' = tasks
          /\ limit >= MinLimit /\ limit <= MaxLimit
          /\ Len(rows) = IF Cardinality(match) < limit
                         THEN Cardinality(match) ELSE limit
          /\ Cardinality(shown) = Len(rows)
          /\ \A i \in 1..Len(rows) :
               \E x \in match :
                 /\ rows[i].id = <<"uuid", x.id>>
                 /\ rows[i].title = x.title
                 /\ rows[i].description = x.description
                 /\ rows[i].is_completed = x.is_completed
                 /\ rows[i].created_at = <<(<<"iso", x.created_at>>)>>
                 /\ rows[i].updated_at = <<(<<"iso", x.updated_at>>)>>
                 /\ \A j \in (i + 1)..Len(rows) :
                      \E y \in match : /\ rows[j].id = <<"uuid", y.id>>
                                       /\ y.created_at <= x.created_at
          /\ \A x \in shown, y \in match \ shown :
               y.created_at <= x.created_at ]_vars

\* C20 witness: a user with a completed and an open task created at
\* different times, besides a task of another user, listed with limit 1 and
\* no filter and got the one task created last
C20_Witness ==
    /\ last.tool = "list_tasks" /\ last.ok
    /\ last.args.limit = Some(MinLimit)
    /\ last.args.is_completed = None
    /\ Len(last.result.rows) = 1
    /\ \E x, y \in tasks :
         /\ x.user_id = last.user_id /\ y.user_id = last.user_id
         /\ x.is_completed /\ ~y.is_completed
         /\ x.created_at # y.created_at

\* C19: list_tasks fails with an invalid-argument error for every limit
\* outside [1,100] (0 and 101 among them) whatever the task store holds and
\* without changing it, and accepts every limit from 1 to 100; a list_tasks
\* call the orchestrator executes with arguments that omit limit is run
\* with limit 10.
C19_ListLimit ==
    [][ (ToolRan /\ last'.tool = "list_tasks") =>
          LET given == last'.args.limit
              mine == {x \in tasks : x.user_id = turn[1].user_id}
              inv == turn'[1].invs[Len(turn'[1].invs)]
          IN
          /\ tasks' = tasks
          /\ (given # <<>> /\ (given[1] < MinLimit \/ given[1] > MaxLimit)) =>
               /\ ~last'.ok /\ last'.error = "ValueError"
               /\ ~inv.success /\ inv.error_message = <<"ValueError">>
          /\ (given # <<>> /\ given[1] >= MinLimit /\ given[1] <= MaxLimit) =>
               /\ last'.ok /\ inv.success
               /\ Len(last'.result.rows) =
                     IF Cardinality(mine) < given[1]
                     THEN Cardinality(mine) ELSE given[1]
          /\ given = <<>> =>
               /\ last'.ok /\ inv.success
               /\ Len(last'.result.rows) =
                     IF Cardinality(mine) < DefaultLimit
                     THEN Cardinality(mine) ELSE DefaultLimit ]_vars

\* C19 witness: with eleven tasks in the store a call with limit 101 failed
\* and the next call, without limit, returned ten rows
C19_Witness ==
    LET T == turn[1] IN
    /\ Cardinality(tasks) = DefaultLimit + 1
    /\ Len(T.invs) = 2
    /\ T.calls[1].arguments.obj.limit = Some(MaxLimit + 1)
    /\ ~T.invs[1].success
    /\ T.calls[2].arguments.obj.limit = None
    /\ T.invs[2].success
    /\ last.tool = "list_tasks" /\ last.ok
    /\ Len(last.result.rows) = DefaultLimit

\* A step in which a direct call of the tool was made
Called(tool) == last = NoCall /\ last'.tool = tool

\* The task of the store the call remembered in last' named and its caller
\* owned
Target == {x \in tasks : /\ last'.args.task_id = <<(<<"uuid", x.id>>)>>
                         /\ x.user_id = last'.user_id}

\* C21: update_task on an owned task with no optional field set succeeds
\* and changes only updated_at: title, description, is_completed, id,
\* user_id and created_at of the task are as before, and every other task
\* is unchanged.
C21_UpdateNoFields ==
    [][ (/\ Called("update_task")
         /\ Target # {}
         /\ last'.args.title = <<>>
         /\ last'.args.description = <<>>
         /\ last'.args.is_completed = <<>>)
        => /\ last'.ok
           /\ \E x \in Target, y \in tasks' :
                /\ tasks' = (tasks \ {x}) \cup {y}
                /\ y.id = x.id /\ y.user_id = x.user_id
                /\ y.title = x.title /\ y.description = x.description
                /\ y.is_completed = x.is_completed
                /\ y.created_at = x.created_at
                /\ y.updated_at = now' ]_vars

\* C21 witness: a completed task was updated with no field set, later than
\* its last change, and is still completed
C21_Witness ==
    /\ last.tool = "update_task" /\ last.ok
    /\ last.args.title = None /\ last.args.description = None
    /\ last.args.is_completed = None
    /\ \E x \in tasks : /\ UuidStr(x.id) = last.result.id
                        /\ x.is_completed
                        /\ x.updated_at > x.created_at
                        /\ x.updated_at = now

\* C22: update_task is a partial update: for every subset of title,
\* description and is_completed given with valid values the call on an
\* owned task succeeds, exactly the given fields take the given values
\* (the title trimmed; is_completed false and an empty description are
\* values), the other fields keep their values, updated_at is refreshed,
\* the other tasks are unchanged and the updated task is returned.
C22_PartialUpdate ==
    [][ (/\ Called("update_task")
         /\ Target # {}
         /\ last'.args.title # <<>> =>
              /\ last'.args.title[1].n > 0
              /\ last'.args.title[1].n <= MaxTitleLen)
        => /\ last'.ok
           /\ \E x \in Target, y \in tasks' :
                LET a == last'.args IN
                /\ tasks' = (tasks \ {x}) \cup {y}
                /\ y.id = x.id /\ y.user_id = x.user_id
                /\ y.created_at = x.created_at
                /\ y.title = IF a.title = <<>> THEN x.title
                             ELSE [pre |-> 0, tag |-> a.title[1].tag,
                                   n |-> a.title[1].n, post |-> 0]
                /\ y.description = IF a.description = <<>> THEN x.description
                                   ELSE a.description
                /\ y.is_completed = IF a.is_completed = <<>> THEN x.is_completed
                                    ELSE a.is_completed[1]
                /\ y.updated_at = now'
                /\ last'.result.id = <<"uuid", y.id>>
                /\ Len(last'.result.rows) = 1
                /\ last'.result.rows[1].title = y.title
                /\ last'.result.rows[1].description = y.description
                /\ last'.result.rows[1].is_completed = y.is_completed
                /\ last'.result.rows[1].updated_at = <<(<<"iso", y.updated_at>>)>>
      ]_vars

\* C22 witness: a completed task without description was given an empty
\* description only, or a completed task was set to not completed only
C22_Witness ==
    /\ last.tool = "update_task" /\ last.ok
    /\ last.args.title = None
    /\ \E x \in tasks :
         /\ UuidStr(x.id) = last.result.id
         /\ \/ /\ last.args.description = Some(EmptyStr)
               /\ last.args.is_completed = None
               /\ x.description = Some(EmptyStr) /\ x.is_completed
            \/ /\ last.args.description = None
               /\ last.args.is_completed = Some(FALSE)
               /\ ~x.is_completed /\ x.description = Some(EmptyStr)

\* C23: delete_task on a task owned by the caller removes exactly that task
\* and returns a confirmation with its id; afterwards no list_tasks of the
\* owner holds it, a second delete_task and an update_task on the same id
\* fail with NotFound, and no other task is removed or changed.
C23_DeleteTask ==
    [][ (Called("delete_task") /\ Target # {})
        => /\ last'.ok
           /\ \E x \in Target :
                /\ tasks' = tasks \ {x}
                /\ x \in tasks
                /\ last'.result.kind = "deleted"
                /\ last'.result.id = <<"uuid", x.id>>
                /\ \A f \in {None, Some(TRUE), Some(FALSE)} :
                   \A out \in list_tasks(tasks', x.user_id, f, MaxLimit) :
                     \A i \in 1..Len(out.result.rows) :
                       out.result.rows[i].id # <<"uuid", x.id>>
                /\ LET again == delete_task(tasks', x.id, x.user_id) IN
                   ~again.ok /\ again.error = "NotFoundError"
                /\ \A in \in UpdateInputs :
                     LET upd == update_task(tasks', x.id, x.user_id,
                                            in[1], in[2], in[3], now')
                     IN ~upd.ok /\ upd.error = "NotFoundError" ]_vars

\* C23 witness: a task was deleted while another task of its owner and a
\* task of another user stay in the store
C23_Witness ==
    /\ last.tool = "delete_task" /\ last.ok
    /\ \A x \in tasks : UuidStr(x.id) # last.result.id
    /\ Cardinality(tasks) = MaxTasks - 1
    /\ \E y \in tasks : y.user_id = last.user_id

\* The ToolInvocation rows attached to a message
Attached(message_id) == {r \in tool_invocations : r.message_id = message_id}

C30_SequentialTools ==
    [][ \A t \in {1} :
        LET T == turn[t]
            U == turn'[t]
        IN
        /\ (T.pc = "tools" /\ U.pc # "aborted") =>
             LET k == Len(T.invs) + 1
                 args == Val(json_loads(T.calls[k].arguments))
             IN
             /\ k <= Len(T.calls)
             /\ IsSome(json_loads(T.calls[k].arguments))
             /\ Len(U.invs) = k
             /\ \A i \in 1..(k - 1) : U.invs[i] = T.invs[i]
             /\ U.invs[k].tool_name = T.calls[k].name
             /\ U.invs[k].input_params = json_dumps(args)
             /\ \E ts \in Clock({1}) :
                \E out \in execute_tool(tasks, T.calls[k].name, args,
                                        T.user_id, next_id.task, ts) :
                  /\ tasks' = out.tasks
                  /\ U.invs[k].success = out.ok
                  /\ out.ok => U.invs[k].output_result
                                 = Some(json_dumps(out.result))
             /\ U.pc = IF k = Len(T.calls) THEN "model2" ELSE "tools"
        /\ T.pc # "tools" => tasks' = tasks
        /\ U.pc = "done" =>
             /\ Len(U.invs) = Len(U.calls)
             /\ \A i \in 1..Len(U.calls) :
                  /\ IsSome(json_loads(U.calls[i].arguments))
                  /\ U.invs[i].tool_name = U.calls[i].name
                  /\ U.invs[i].input_params
                       = json_dumps(Val(json_loads(U.calls[i].arguments)))
      ]_vars

\* C30 witness: on an empty store the model asked for create_task and then
\* for a change of the task created, and the second call succeeded
C30_Witness ==
    /\ turn[1].pc = "done"
    /\ Len(turn[1].calls) = 2
    /\ turn[1].calls[1].name = "create_task"
    /\ turn[1].calls[2].name \in {"update_task", "delete_task"}
    /\ turn[1].invs[1].success /\ turn[1].invs[2].success
    /\ Cardinality(tasks) <= 1
    /\ next_id.task = 2

-----------------------------------------------------------------------------
(* Deleting a conversation while turns run *)

\* get_conversation(conversation_id, user_id): the rows the select matches
get_conversation(convs, conversation_id, user_id) ==
    {c \in convs : c.id = conversation_id /\ c.user_id = user_id}

\* What a delete_conversation call left in last: the value returned, or
\* the exception of the commit
DeleteOutcome(user_id, conversation_id, ok, error, returned) ==
    [tool |-> "delete_conversation", args |-> NoArgs, user_id |-> user_id,
     ok |-> ok, error |-> error,
     result |-> [kind |-> returned, id |-> UuidStr(conversation_id),
                 rows |-> <<>>]]

\* delete_conversation(conversation_id, user_id): False when the caller
\* owns no such conversation; otherwise every Message of the conversation
\* and the Conversation are deleted in one commit.  ToolInvocation rows are
\* not selected: when a Message to delete has ToolInvocation rows, a
\* database that enforces message_id's foreign key refuses the commit, and
\* one that does not deletes the Message and keeps the rows.
delete_conversation(Callers) ==
    /\ \E u \in Callers, c \in SuppliedConversationIds :
         LET found == get_conversation(conversations, c, u) IN
         \/ /\ found = {}
            /\ last' = DeleteOutcome(u, c, TRUE, "", "False")
            /\ UNCHANGED <<conversations, messages>>
         \/ /\ found # {}
            /\ \E r \in tool_invocations, m \in messages :
                 r.message_id = m.id /\ m.conversation_id = c
            /\ last' = DeleteOutcome(u, c, FALSE, "PersistenceError", "")
            /\ UNCHANGED <<conversations, messages>>
         \/ /\ found # {}
            /\ messages' = {m \in messages : m.conversation_id # c}
            /\ conversations' = conversations \ found
            /\ last' = DeleteOutcome(u, c, TRUE, "", "True")
    /\ UNCHANGED <<tasks, tool_invocations, now, next_id, turn, started>>

\* One user message, one model text, one tool call
OneText == {Str(0, "hello", MaxMessageLen, 0)}
OneReply == {Some(Str(0, "reply", MaxContentLen, 0))}

\* Turns of u1, one after another, and delete_conversation calls of both
\* users at any moment of a turn
NextDelete ==
    \/ Step(1, {"u1"}, OneText, OneReply, ToolCallLists({CreateCall}), {1})
    \/ delete_conversation(Users)

SpecDelete == Init /\ [][NextDelete]_vars

-----------------------------------------------------------------------------
(* A clock that may stand still *)

\* Turns of u1 one after another, where two readings of utcnow() may be
\* equal
NextTies ==
    Step(1, {"u1"}, OneText, OneReply, ToolCallLists({ListCall}), {0, 1})

SpecTies == Init /\ [][NextTies]_vars

-----------------------------------------------------------------------------
(* Concurrent turns *)

\* One turn has completed on conversation 1 of u1
InitConc ==
    /\ tasks = {}
    /\ conversations = CompletedTurns(1).conversations
    /\ messages = CompletedTurns(1).messages
    /\ tool_invocations = {}
    /\ now = CompletedTurns(1).now
    /\ next_id = CompletedTurns(1).next_id
    /\ turn = [t \in Slots |-> IdleTurn]
    /\ last = NoCall
    /\ started = 0

\* Requests of u1 served at once: each slot runs process_message on a
\* session of its own, and the steps of the slots interleave
NextConc ==
    \E t \in Slots :
      Step(t, {"u1"}, OneText, OneReply, ToolCallLists({ListCall}), {1})

SpecConc == InitConc /\ [][NextConc]_vars

-----------------------------------------------------------------------------
(* Properties of deletion, timestamps and concurrent turns *)

\* A step in which delete_conversation returned True
Deleted ==
    /\ last'.tool = "delete_conversation"
    /\ last'.result.kind = "True"
    /\ conversations' # conversations

\* C25: after delete_conversation has succeeded on a conversation that had
\* turns with tool calls, no ToolInvocation row remains whose parent
\* Message was deleted: every row's message_id names a stored Message.
C25_NoOrphanInvocation ==
    [][ Deleted =>
          \A r \in tool_invocations' :
            \E m \in messages' : m.id = r.message_id ]_vars

\* C26: in every state reachable by turns and delete_conversation calls in
\* any interleaving, every persisted Message has a conversation_id that
\* names an existing Conversation.
C26_MessageHasConversation ==
    \A m \in messages : \E c \in conversations : c.id = m.conversation_id

\* C27: when the conversation is gone at the moment the turn touches its
\* timestamp (deleted after the turn loaded its history), the touch fails
\* with the not-found error, nothing is touched, and the turn does not
\* return a result: a turn returns only when its conversation was there
\* to be touched.
C27_TouchNotFound ==
    [][ LET T == turn[1]
            U == turn'[1]
        IN
        /\ (/\ T.pc = "touch"
            /\ U # T
            /\ \A c \in conversations : c.id # Val(T.conversation_id))
           => /\ U.pc = "aborted"
              /\ U.error = "ValueError"
              /\ conversations' = conversations
        /\ (T.pc # "done" /\ U.pc = "done")
           => \E c \in conversations : c.id = Val(T.conversation_id)
      ]_vars

\* C27 witness: a turn loaded the two messages of its conversation, the
\* conversation and those messages were deleted before the turn wrote its
\* own two, and the turn raised at the touch
C27_Witness ==
    /\ turn[1].pc = "aborted"
    /\ turn[1].error = "ValueError"
    /\ Len(turn[1].history) = 2
    /\ IsSome(turn[1].agent_msg)
    /\ {m.id : m \in {x \in messages :
                        x.conversation_id = Val(turn[1].conversation_id)}}
         = {Val(turn[1].user_msg), Val(turn[1].agent_msg)}
    /\ last.tool = "delete_conversation"
    /\ last.result.kind = "True"
    /\ last.result.id = UuidStr(Val(turn[1].conversation_id))

\* The stored Message with the id
MessageOf(id) == CHOOSE m \in messages : m.id = id

\* C28: two turns one after the other on the same conversation id, the
\* second starting after the first has returned, produce four messages
\* whose created_at values are strictly increasing in the order user1,
\* agent1, user2, agent2, and loading the messages of the conversation
\* returns them in exactly that order: the second turn loads user1, agent1,
\* and after it the load returns all four.
C28_SequentialOrder ==
    [][ LET T == turn[1]
            U == turn'[1]
        IN
        /\ (/\ T.pc = "done" /\ T.given = None
            /\ U.pc = FirstStep /\ U.given = T.conversation_id)
           => LET user1 == MessageOf(Val(T.user_msg))
                  agent1 == MessageOf(Val(T.agent_msg))
              IN /\ user1.created_at < agent1.created_at
                 /\ U.history = <<user1, agent1>>
        /\ (T.pc = "touch" /\ U.pc = "done" /\ Len(T.history) = 2)
           => LET four == T.history \o <<MessageOf(Val(T.user_msg)),
                                          MessageOf(Val(T.agent_msg))>>
              IN /\ \A i \in 1..3 : four[i].created_at < four[i + 1].created_at
                 /\ <<four[1].role, four[2].role, four[3].role, four[4].role>>
                      = <<"user", "agent", "user", "agent">>
                 /\ get_conversation_messages(messages',
                                              Val(T.conversation_id))
                      = {four}
      ]_vars

\* The roles of the stored messages of a conversation in created_at order
\* (the clock of SpecConc advances at every reading, so the order is one)
StoredRoles(conversation_id) ==
    LET s == CHOOSE o \in AscOrders({m \in messages :
                                       m.conversation_id = conversation_id})
                    : TRUE
    IN [i \in 1..Len(s) |-> s[i].role]

\* C29: there is no per-conversation lock: a turn that has its answer is
\* never kept from writing its user Message by another turn on the same
\* conversation, wherever that turn is.  (The states the claim says are
\* reachable are those of C29_Witness.)
C29_NoConversationLock ==
    \A t \in Slots :
      turn[t].pc = "persist_user" => ENABLED PersistUser(t, {1})

\* C29 witness: two turns on conversation 1 have both completed, the
\* stored messages after the first pair are user, user, agent, agent, and
\* each turn built its transcript from the first pair alone
C29_Witness ==
    /\ \A t \in Slots : /\ turn[t].pc = "done"
                        /\ turn[t].conversation_id = Some(1)
                        /\ Len(turn[t].history) = 2
                        /\ Len(turn[t].transcript) = 4
    /\ StoredRoles(1) = <<"user", "agent", "user", "user", "agent", "agent">>

-----------------------------------------------------------------------------
(* Properties of aborted turns, returned values and frames *)

\* C31: tool side effects are not covered by the turn's persistence: a step
\* that aborts a turn whose tools have run (the second model call or a
\* persistence write fails) leaves the task store as the tools left it and
\* writes no ToolInvocation row.  (The state the claim says is reachable is
\* that of C31_Witness.)
C31_EffectsWithoutTrace ==
    [][ \A t \in {1} :
          (/\ turn[t].pc \in {"model2", "persist_user", "persist_agent",
                              "persist_tools", "touch"}
           /\ Len(turn[t].invs) > 0
           /\ turn'[t].pc = "aborted")
          => /\ tasks' = tasks
             /\ tool_invocations' = tool_invocations ]_vars

\* C31 witness: create_task of the turn succeeded and its task is stored,
\* the turn aborted at the second model call or at a write, and there is no
\* ToolInvocation row at all
C31_Witness ==
    /\ turn[1].pc = "aborted"
    /\ turn[1].error \in {"UpstreamModelError", "PersistenceError"}
    /\ Len(turn[1].invs) > 0
    /\ turn[1].invs[1].tool_name = "create_task"
    /\ turn[1].invs[1].success
    /\ \E x \in tasks :
         turn[1].invs[1].output_result
           = Some(json_dumps([kind |-> "task", id |-> UuidStr(x.id),
                              rows |-> <<TaskRow(x, TRUE, FALSE)>>]))
    /\ tool_invocations = {}

\* C32: in the response of a turn that returned, each tool invocation
\* summary has exactly one of result and error populated, selected by
\* success; the summaries are in the order of the requested tool calls;
\* the conversation id is the supplied one, or that of the conversation
\* created in this turn; the message id is that of the agent Message
\* persisted in this turn.
C32_Response ==
    LET T == turn[1] IN
    T.pc = "done" =>
      LET R == ResponseBody(T) IN
      /\ Len(R.tool_invocations) = Len(T.calls)
      /\ \A i \in 1..Len(R.tool_invocations) :
           LET e == R.tool_invocations[i] IN
           /\ e.tool_name = T.calls[i].name
           /\ e.success => (e.result # None /\ e.error = None)
           /\ ~e.success => (e.error # None /\ e.result = None)
           /\ e.success = T.invs[i].success
      /\ IsSome(T.given) => R.conversation_id = Val(T.given)
      /\ IsNone(T.given) =>
           /\ \E c \in conversations : /\ c.id = R.conversation_id
                                       /\ c.user_id = T.user_id
           /\ T.history = <<>>
           /\ {m.id : m \in {x \in messages :
                               x.conversation_id = R.conversation_id}}
                = {Val(T.user_msg), R.message_id}
      /\ \E m \in messages : /\ m.id = R.message_id
                             /\ m.role = "agent"
                             /\ m.conversation_id = R.conversation_id
                             /\ m.content = R.agent_response
      /\ \A m \in messages : m.id <= R.message_id

\* C32 witness: a turn on a new conversation returned two summaries, the
\* first of a call that succeeded and the second of one that failed
C32_Witness ==
    /\ turn[1].pc = "done"
    /\ IsNone(turn[1].given)
    /\ Len(ResponseBody(turn[1]).tool_invocations) = 2
    /\ ResponseBody(turn[1]).tool_invocations[1].success
    /\ ~ResponseBody(turn[1]).tool_invocations[2].success
    /\ ResponseBody(turn[1]).tool_invocations[2].error # None

\* The stored Conversation with the id, in a set of rows
ConversationOf(convs, id) == CHOOSE c \in convs : c.id = id

\* C33: every completed turn bumps updated_at of its conversation: in the
\* step in which a turn returns, updated_at becomes the clock reading of
\* the touch, which is not earlier than created_at of the user and agent
\* Messages the turn wrote and not earlier than updated_at before; and no
\* step changes created_at of a conversation.
C33_TouchBumps ==
    [][ /\ \A c \in conversations, d \in conversations' :
             c.id = d.id => d.created_at = c.created_at
        /\ (turn[1].pc = "touch" /\ turn'[1].pc = "done") =>
             LET id == Val(turn[1].conversation_id)
                 before == ConversationOf(conversations, id)
                 after == ConversationOf(conversations', id)
             IN /\ \E c \in conversations : c.id = id
                /\ \E c \in conversations' : c.id = id
                /\ after.updated_at = now'
                /\ after.updated_at >= before.updated_at
                /\ after.updated_at >= MessageOf(Val(turn[1].user_msg)).created_at
                /\ after.updated_at >= MessageOf(Val(turn[1].agent_msg)).created_at
                /\ after.updated_at >= after.created_at ]_vars

\* C33 witness: a second turn on a conversation has returned and
\* updated_at is later than the first turn left it and later than the
\* conversation's created_at
C33_Witness ==
    /\ turn[1].pc = "done"
    /\ Len(turn[1].history) = 2
    /\ \E c \in conversations :
         /\ c.id = Val(turn[1].conversation_id)
         /\ c.updated_at = now
         /\ c.updated_at > c.created_at
         /\ \A i \in 1..2 : c.updated_at > turn[1].history[i].created_at

\* C34: no step of a turn changes user_id (or id, title, created_at) of an
\* existing Conversation, any field of an existing Message, or any field of
\* an existing ToolInvocation: a step only adds Message and ToolInvocation
\* rows (and the turn's own new Conversation), and changes updated_at of
\* the turn's own conversation only, in the touch.
C34_Frame ==
    [][ /\ messages \subseteq messages'
        /\ tool_invocations \subseteq tool_invocations'
        /\ \A m \in messages' \ messages :
             /\ m.conversation_id = Val(turn'[1].conversation_id)
             /\ \A x \in messages : x.id # m.id
        /\ \A r \in tool_invocations' \ tool_invocations :
             /\ r.message_id = Val(turn'[1].agent_msg)
             /\ \A x \in tool_invocations : x.id # r.id
        /\ \A c \in conversations :
             \E d \in conversations' :
               /\ d = [c EXCEPT !.updated_at = d.updated_at]
               /\ d.updated_at # c.updated_at =>
                    /\ turn[1].pc = "touch"
                    /\ c.id = Val(turn[1].conversation_id)
        /\ \A d \in conversations' :
             (\A c \in conversations : c.id # d.id) =>
               /\ turn'[1].given = None
               /\ d.id = Val(turn'[1].conversation_id)
               /\ d.user_id = turn'[1].user_id
        /\ Cardinality(conversations') <= Cardinality(conversations) + 1
      ]_vars

\* C34 witness: a second turn, on a conversation of its own, has written
\* its messages and a ToolInvocation row and touched its conversation,
\* while the conversation and the rows of the first turn are in the store
C34_Witness ==
    /\ turn[1].pc = "done"
    /\ turn[1].inv_rows # {}
    /\ Cardinality(conversations) = 2
    /\ Cardinality(messages) = 4
    /\ \E r \in tool_invocations : r.id \notin turn[1].inv_rows
    /\ \E c \in conversations : /\ c.id # Val(turn[1].conversation_id)
                                /\ c.updated_at < now

\* C35: the orchestrator has no confirmation gate on deletion: whenever the
\* loop reaches a delete_task call of the model's response that names a
\* task the caller owns, the task is deleted in that step and the call is
\* recorded as a success, whatever the history of the conversation and the
\* calls before it (also in the first turn of a conversation, with no
\* list_tasks call and no confirming user message before).
C35_NoDeleteGate ==
    [][ LET T == turn[1]
            U == turn'[1]
        IN
        (/\ T.pc = "tools"
         /\ U # T
         /\ NextCall(T.calls, T.invs).name = "delete_task"
         /\ IsSome(json_loads(NextCall(T.calls, T.invs).arguments)))
        => LET args == Val(json_loads(NextCall(T.calls, T.invs).arguments))
               owned == {x \in tasks : /\ args.task_id = Some(UuidStr(x.id))
                                       /\ x.user_id = T.user_id}
           IN owned # {} =>
                /\ tasks' = tasks \ owned
                /\ Len(U.invs) = Len(T.invs) + 1
                /\ U.invs[Len(U.invs)].success
                /\ U.invs[Len(U.invs)].tool_name = "delete_task"
      ]_vars

\* C35 witness: in the first turn of a new conversation the model's
\* response was one delete_task call, and the task an earlier turn had
\* created is gone
C35_Witness ==
    /\ turn[1].given = None
    /\ turn[1].history = <<>>
    /\ Len(turn[1].calls) = 1
    /\ turn[1].calls[1].name = "delete_task"
    /\ Len(turn[1].invs) = 1
    /\ turn[1].invs[1].success
    /\ tasks = {}
    /\ next_id.task = 2

\* C36: update_task is atomic on failure: the ownership check comes before
\* the title validation (with an invalid title on a task the caller does
\* not own the call fails with NotFound), and when a given title is empty
\* after trimming or longer than 255 characters the call on an owned task
\* fails with ValidationError and the store is unchanged: no field of the
\* task changes, neither a description or is_completed given in the same
\* call nor updated_at.
C36_UpdateAtomic ==
    [][ Called("update_task") =>
          LET a == last'.args
              invalid == /\ a.title # <<>>
                         /\ \/ a.title[1].n = 0
                            \/ a.title[1].n > MaxTitleLen
          IN
          /\ Target = {} => /\ ~last'.ok
                            /\ last'.error = "NotFoundError"
                            /\ tasks' = tasks
          /\ (Target # {} /\ invalid) => /\ ~last'.ok
                                         /\ last'.error = "ValidationError"
                                         /\ tasks' = tasks
                                         /\ now' = now
      ]_vars

\* C36 witness: an update with a blank title, a description and
\* is_completed failed with ValidationError on an owned task that still
\* has no description, is not completed and was never updated
C36_Witness ==
    /\ last.tool = "update_task"
    /\ ~last.ok /\ last.error = "ValidationError"
    /\ last.args.description # None /\ last.args.is_completed = Some(TRUE)
    /\ \E x \in tasks : /\ last.args.task_id = Some(UuidStr(x.id))
                        /\ x.user_id = last.user_id
                        /\ x.description = None
                        /\ ~x.is_completed
                        /\ x.updated_at = x.created_at

\* A turn under way or ended that was given a conversation id naming no
\* stored Conversation
OnUnknownConversation(T) ==
    /\ T.pc # "idle"
    /\ IsSome(T.given)
    /\ \A c \in conversations : c.id # Val(T.given)

\* C37: a turn given a conversation id that names no existing conversation
\* never returns a result: it builds its transcript from an empty history,
\* and when it has called the model, run the requested tools and written
\* its messages it fails at the timestamp touch with the not-found error.
C37_UnknownConversation ==
    LET T == turn[1] IN
    OnUnknownConversation(T) =>
      /\ T.pc # "done"
      /\ T.history = <<>>
      /\ T.pc \notin {"aborted"} \cup {"idle"} =>
           T.transcript = BuildMessages(<<>>, T.user_message)
      /\ (T.pc = "aborted" /\ IsSome(T.agent_msg)
          /\ (Len(T.invs) > 0 => T.inv_rows # {}))
         => T.error \in {"ValueError", "PersistenceError"}

\* A step that is a delete_conversation call
DeleteCalled ==
    /\ last'.tool = "delete_conversation"
    /\ turn' = turn
    /\ last' # last \/ conversations' # conversations

\* C38: delete_conversation called with a user_id that does not own the
\* conversation, or with an id that names none, returns False and deletes
\* nothing; called by the owner it returns True and removes the
\* conversation and every Message of it, and no Message of another
\* conversation.
C38_DeleteConversation ==
    [][ DeleteCalled =>
          LET own == {c \in conversations :
                        /\ UuidStr(c.id) = last'.result.id
                        /\ c.user_id = last'.user_id}
          IN
          /\ own = {} => /\ last'.ok /\ last'.result.kind = "False"
                         /\ conversations' = conversations
                         /\ messages' = messages
                         /\ tool_invocations' = tool_invocations
          /\ own # {} => /\ last'.ok /\ last'.result.kind = "True"
                         /\ conversations' = conversations \ own
                         /\ messages' =
                              {m \in messages :
                                 \A c \in own : m.conversation_id # c.id}
      ]_vars

-----------------------------------------------------------------------------
(* Termination *)

\* The steps of a turn after its start
Progress(t, Replies, CallLists, Ticks) ==
    \/ Model1(t, Replies, CallLists)
    \/ ExecTool(t, Ticks)
    \/ Model2(t, Replies)
    \/ PersistUser(t, Ticks)
    \/ PersistAgent(t, Ticks)
    \/ PersistTools(t)
    \/ Touch(t, Ticks)

\* Turns of u1 one after another, where every model call and every store
\* operation a turn is waiting for returns or raises at some time
NextLive ==
    Step(1, {"u1"}, UserMessages, ModelTexts,
         ToolCallLists({ListCall, BadJsonCall}), {1})

SpecLive ==
    /\ Init
    /\ [][NextLive]_vars
    /\ WF_vars(Progress(1, ModelTexts,
                        ToolCallLists({ListCall, BadJsonCall}), {1}))

\* The position of a pc in the sequence of process_message
Rank(pc) ==
    CASE pc = "idle" -> 0
      [] pc = "model1" -> 1
      [] pc = "tools" -> 2
      [] pc = "model2" -> 3
      [] pc = "persist_user" -> 4
      [] pc = "persist_agent" -> 5
      [] pc = "persist_tools" -> 6
      [] pc = "touch" -> 7
      [] OTHER -> 8

Running == {"model1", "tools", "model2", "persist_user", "persist_agent",
            "persist_tools", "touch"}

\* C39: every started turn terminates: a turn under way at some time has
\* returned (done) or aborted; a step of a turn under way never goes back
\* in the sequence load, first model call, tools, second model call,
\* persistence, and stays where it is only in the tool loop, where it runs
\* one call more, at most one per requested call.
C39_Terminates ==
    /\ (turn[1].pc \in Running) ~> (turn[1].pc \in {"done", "aborted"})
    /\ [][ LET T == turn[1]
               U == turn'[1]
           IN (T.pc \in Running /\ U # T) =>
                /\ Rank(U.pc) >= Rank(T.pc)
                /\ Len(U.invs) <= Len(U.calls)
                /\ Rank(U.pc) = Rank(T.pc) =>
                     /\ T.pc = "tools"
                     /\ Len(U.invs) = Len(T.invs) + 1
                /\ T.pc # "tools" => U.invs = T.invs
                /\ U.model_calls <= 2 ]_vars

\* C39 witness: a turn with two tool calls and both model calls has
\* returned
C39_Witness ==
    /\ turn[1].pc = "done"
    /\ Len(turn[1].calls) = 2
    /\ Len(turn[1].invs) = 2
    /\ turn[1].model_calls = 2
    /\ turn[1].touched

====
